---- MODULE Spec2Model ----
(***************************************************************************)
(* Discussion subsystem of foundery-os-core (src/src/discussion).          *)
(*                                                                         *)
(* The store (DiscussionState) is one record variable; every public        *)
(* operation of api.rs is an operator from (store, caller, arguments, now) *)
(* to (store, result), written in the order of the code's checks and       *)
(* mutations, and one action applies it.  Time is the canister clock       *)
(* read by the endpoints of lib.rs (ic_cdk::api::time()).                  *)
(*                                                                         *)
(* Time unit: the code counts nanoseconds in u64.  TLC's integers are 32   *)
(* bits, so the model counts seconds: NS_PER_HOUR stands for one hour and  *)
(* MIN_REFINING_DURATION_NS for 48 hours in that unit.  The code only      *)
(* compares, subtracts (saturating) and divides these values, so the       *)
(* scale does not change any outcome.                                      *)
(***************************************************************************)
EXTENDS Integers, Sequences, FiniteSets, TLC

\* ------------------------------------------------------------------------
\* Constants of types.rs
\* ------------------------------------------------------------------------
MIN_PARTICIPANTS == 3
MIN_SUBSTANTIVE_COMMENTS == 5
NS_PER_HOUR == 3600
MIN_REFINING_DURATION_NS == 48 * NS_PER_HOUR
SUBSTANTIVE_COMMENT_MIN_CHARS == 50
MAX_TITLE_LEN == 200
MAX_COMMENT_LEN == 10 * 1024
MAX_DESCRIPTION_LEN == 50 * 1024

\* ------------------------------------------------------------------------
\* Bounds of the model
\* ------------------------------------------------------------------------
\* Spec: every operation with every kind of input, in runs of at most MaxCalls
\* successful calls and clock ticks.
MaxCalls == 4
\* GateSpec: the calls of one discussion's way to Ready.
GateMaxComments == 5
GateMaxTicks == 3

Principals == {"p1", "p2", "p3"}

\* ------------------------------------------------------------------------
\* Strings: a String is modelled by its byte length (String::len) and its
\* number of chars (chars().count()); a char takes 1 to 4 bytes in UTF-8.
\* ------------------------------------------------------------------------
Str(b, c) == [bytes |-> b, chars |-> c]
len(s) == s.bytes
chars_count(s) == s.chars
is_empty(s) == s.bytes = 0

\* Result<T, String>
Ok(v) == [ok |-> TRUE, val |-> v]
Err(m) == [ok |-> FALSE, msg |-> m, missing |-> << >>]
\* "Quality gates not met: ..." with the unmet criteria it lists, in order
ErrGates(missing) == [ok |-> FALSE, msg |-> "Quality gates not met", missing |-> missing]
Unmet(what, have, need) == [what |-> what, have |-> have, need |-> need]
Ret(st, r) == [st |-> st, res |-> r]

\* BTreeMap helpers
contains_key(m, k) == k \in DOMAIN m
insert(m, k, v) == [x \in DOMAIN m \cup {k} |-> IF x = k THEN v ELSE m[x]]
or_default(m, k, dflt) == IF k \in DOMAIN m THEN m[k] ELSE dflt
\* Vec::contains
contains(v, x) == \E i \in 1..Len(v) : v[i] = x

\* ------------------------------------------------------------------------
\* types.rs: values
\* ------------------------------------------------------------------------
\* AuthorType: Human | Agent { agent_id }
Human == [kind |-> "Human", agent_id |-> ""]
Agent(agent_id) == [kind |-> "Agent", agent_id |-> agent_id]
\* Option<u64>
None == << >>
Some(x) == << x >>

\* ------------------------------------------------------------------------
\* DiscussionState::new
\* ------------------------------------------------------------------------
EmptyMap == << >>

\* Mutant: the id counters start at 0
new_ids_from_zero ==
    [ discussions |-> EmptyMap,
      comments |-> EmptyMap,
      discussion_comments |-> EmptyMap,
      invites |-> EmptyMap,
      discussion_participants |-> EmptyMap,
      user_discussions |-> EmptyMap,
      next_discussion_id |-> 0,
      next_comment_id |-> 0 ]

new ==
    [ discussions |-> EmptyMap,
      comments |-> EmptyMap,
      discussion_comments |-> EmptyMap,
      invites |-> EmptyMap,
      discussion_participants |-> EmptyMap,
      user_discussions |-> EmptyMap,
      next_discussion_id |-> 1,
      next_comment_id |-> 1 ]

\* ------------------------------------------------------------------------
\* state.rs: predicates and counts
\* ------------------------------------------------------------------------
\* Mutant: any principal passes for a discussion that exists
is_proposer_or_contributor_anybody(st, discussion_id, principal) ==
    contains_key(st.discussions, discussion_id)

\* Mutant: the holder of an invite of any status counts as a contributor
is_proposer_or_contributor_invited(st, discussion_id, principal) ==
    IF contains_key(st.discussions, discussion_id)
    THEN LET discussion == st.discussions[discussion_id]
         IN  \/ discussion.proposer = principal
             \/ contains(discussion.contributors, principal)
             \/ contains_key(st.invites, << discussion_id, principal >>)
    ELSE FALSE

is_proposer_or_contributor(st, discussion_id, principal) ==
    IF contains_key(st.discussions, discussion_id)
    THEN LET discussion == st.discussions[discussion_id]
         IN  discussion.proposer = principal
                \/ contains(discussion.contributors, principal)
    ELSE FALSE

\* Mutant: anyone can comment in every stage
can_comment_anyone(st, discussion_id, principal) ==
    contains_key(st.discussions, discussion_id)

can_comment(st, discussion_id, principal) ==
    IF contains_key(st.discussions, discussion_id)
    THEN LET discussion == st.discussions[discussion_id]
         IN  IF discussion.proposer = principal THEN TRUE
             ELSE IF contains(discussion.contributors, principal) THEN TRUE
             ELSE IF discussion.stage = "Brainstorm" THEN TRUE
             ELSE FALSE
    ELSE FALSE

get_participant_count(st, discussion_id) ==
    IF contains_key(st.discussion_participants, discussion_id)
    THEN Cardinality(st.discussion_participants[discussion_id])
    ELSE 0

\* Mutant: retracted comments are counted too
count_substantive_comments_with_retracted(st, discussion_id) ==
    IF contains_key(st.discussion_comments, discussion_id)
    THEN LET comment_ids == st.discussion_comments[discussion_id]
         IN  Cardinality({ i \in 1..Len(comment_ids) :
                 /\ contains_key(st.comments, comment_ids[i])
                 /\ LET c == st.comments[comment_ids[i]]
                    IN  /\ c.author_type = Human
                        /\ chars_count(c.content) >= SUBSTANTIVE_COMMENT_MIN_CHARS })
    ELSE 0

\* Mutant: the content is measured in bytes
count_substantive_comments_by_bytes(st, discussion_id) ==
    IF contains_key(st.discussion_comments, discussion_id)
    THEN LET comment_ids == st.discussion_comments[discussion_id]
         IN  Cardinality({ i \in 1..Len(comment_ids) :
                 /\ contains_key(st.comments, comment_ids[i])
                 /\ LET c == st.comments[comment_ids[i]]
                    IN  /\ ~c.is_retracted
                        /\ c.author_type = Human
                        /\ len(c.content) >= SUBSTANTIVE_COMMENT_MIN_CHARS })
    ELSE 0

count_substantive_comments(st, discussion_id) ==
    IF contains_key(st.discussion_comments, discussion_id)
    THEN LET comment_ids == st.discussion_comments[discussion_id]
         IN  Cardinality({ i \in 1..Len(comment_ids) :
                 /\ contains_key(st.comments, comment_ids[i])
                 /\ LET c == st.comments[comment_ids[i]]
                    IN  /\ ~c.is_retracted
                        /\ c.author_type = Human
                        /\ chars_count(c.content) >= SUBSTANTIVE_COMMENT_MIN_CHARS })
    ELSE 0

\* ------------------------------------------------------------------------
\* validation.rs
\* ------------------------------------------------------------------------
validate_create_discussion(args) ==
    IF is_empty(args.title) THEN Err("Title cannot be empty")
    ELSE IF len(args.title) > MAX_TITLE_LEN THEN Err("Title too long")
    ELSE IF is_empty(args.description) THEN Err("Description cannot be empty")
    ELSE IF len(args.description) > MAX_DESCRIPTION_LEN THEN Err("Description too long")
    ELSE Ok("unit")

validate_comment(args) ==
    IF is_empty(args.content) THEN Err("Comment content cannot be empty")
    ELSE IF len(args.content) > MAX_COMMENT_LEN THEN Err("Comment too long")
    ELSE Ok("unit")

validate_stage_transition(current, target) ==
    IF current = "Brainstorm" /\ target = "Refining" THEN Ok("unit")
    ELSE IF current = "Refining" /\ target = "Ready" THEN Ok("unit")
    ELSE IF current = "Ready" THEN Err("Cannot transition from Ready stage")
    ELSE IF current = target THEN Err("Already in stage")
    ELSE Err("Invalid transition")

saturating_sub(a, b) == IF a >= b THEN a - b ELSE 0

\* Mutant: the time in the stage is measured from the creation of the discussion
check_quality_gates_since_creation(st, discussion_id, now) ==
    IF ~contains_key(st.discussions, discussion_id)
    THEN [ participants_met |-> FALSE, participants_count |-> 0,
           comments_met |-> FALSE, substantive_comments |-> 0,
           duration_met |-> FALSE, hours_in_refining |-> 0,
           all_met |-> FALSE ]
    ELSE LET discussion == st.discussions[discussion_id]
             participants_count == get_participant_count(st, discussion_id)
             participants_met == participants_count >= MIN_PARTICIPANTS
             substantive_comments == count_substantive_comments(st, discussion_id)
             comments_met == substantive_comments >= MIN_SUBSTANTIVE_COMMENTS
             time_in_stage_ns == saturating_sub(now, discussion.created_at)
             duration_met ==
                 IF discussion.stage = "Refining"
                 THEN time_in_stage_ns >= MIN_REFINING_DURATION_NS
                 ELSE IF discussion.stage = "Ready" THEN TRUE
                 ELSE FALSE
             hours_in_refining ==
                 IF discussion.stage = "Refining" THEN time_in_stage_ns \div NS_PER_HOUR
                 ELSE IF discussion.stage = "Ready" THEN 48
                 ELSE 0
         IN  [ participants_met |-> participants_met,
               participants_count |-> participants_count,
               comments_met |-> comments_met,
               substantive_comments |-> substantive_comments,
               duration_met |-> duration_met,
               hours_in_refining |-> hours_in_refining,
               all_met |-> participants_met /\ comments_met /\ duration_met ]

\* Mutant: the duration gate is reported as unmet once the discussion is Ready
check_quality_gates_ready_unmet(st, discussion_id, now) ==
    IF ~contains_key(st.discussions, discussion_id)
    THEN [ participants_met |-> FALSE, participants_count |-> 0,
           comments_met |-> FALSE, substantive_comments |-> 0,
           duration_met |-> FALSE, hours_in_refining |-> 0,
           all_met |-> FALSE ]
    ELSE LET discussion == st.discussions[discussion_id]
             participants_count == get_participant_count(st, discussion_id)
             participants_met == participants_count >= MIN_PARTICIPANTS
             substantive_comments == count_substantive_comments(st, discussion_id)
             comments_met == substantive_comments >= MIN_SUBSTANTIVE_COMMENTS
             time_in_stage_ns == saturating_sub(now, discussion.stage_changed_at)
             duration_met ==
                 IF discussion.stage = "Refining"
                 THEN time_in_stage_ns >= MIN_REFINING_DURATION_NS
                 ELSE IF discussion.stage = "Ready" THEN FALSE
                 ELSE FALSE
             hours_in_refining ==
                 IF discussion.stage = "Refining" THEN time_in_stage_ns \div NS_PER_HOUR
                 ELSE IF discussion.stage = "Ready" THEN 48
                 ELSE 0
         IN  [ participants_met |-> participants_met,
               participants_count |-> participants_count,
               comments_met |-> comments_met,
               substantive_comments |-> substantive_comments,
               duration_met |-> duration_met,
               hours_in_refining |-> hours_in_refining,
               all_met |-> participants_met /\ comments_met /\ duration_met ]

check_quality_gates(st, discussion_id, now) ==
    IF ~contains_key(st.discussions, discussion_id)
    THEN [ participants_met |-> FALSE, participants_count |-> 0,
           comments_met |-> FALSE, substantive_comments |-> 0,
           duration_met |-> FALSE, hours_in_refining |-> 0,
           all_met |-> FALSE ]
    ELSE LET discussion == st.discussions[discussion_id]
             participants_count == get_participant_count(st, discussion_id)
             participants_met == participants_count >= MIN_PARTICIPANTS
             substantive_comments == count_substantive_comments(st, discussion_id)
             comments_met == substantive_comments >= MIN_SUBSTANTIVE_COMMENTS
             time_in_stage_ns == saturating_sub(now, discussion.stage_changed_at)
             duration_met ==
                 IF discussion.stage = "Refining"
                 THEN time_in_stage_ns >= MIN_REFINING_DURATION_NS
                 ELSE IF discussion.stage = "Ready" THEN TRUE
                 ELSE FALSE
             hours_in_refining ==
                 IF discussion.stage = "Refining" THEN time_in_stage_ns \div NS_PER_HOUR
                 ELSE IF discussion.stage = "Ready" THEN 48
                 ELSE 0
         IN  [ participants_met |-> participants_met,
               participants_count |-> participants_count,
               comments_met |-> comments_met,
               substantive_comments |-> substantive_comments,
               duration_met |-> duration_met,
               hours_in_refining |-> hours_in_refining,
               all_met |-> participants_met /\ comments_met /\ duration_met ]

\* ------------------------------------------------------------------------
\* api.rs: the operations.  Each returns the store after the call and the
\* call's result; an early return hands back the store as it is at that
\* point of the code.
\* ------------------------------------------------------------------------
\* Mutant: the proposer is not counted as a participant
create_discussion_uncounted(st, caller, args, now) ==
    LET v == validate_create_discussion(args)
    IN  IF ~v.ok THEN Ret(st, v)
        ELSE
        LET id == st.next_discussion_id
            discussion ==
                [ id |-> id,
                  title |-> args.title,
                  description |-> args.description,
                  category |-> args.category,
                  proposer |-> caller,
                  contributors |-> << >>,
                  stage |-> "Brainstorm",
                  created_at |-> now,
                  stage_changed_at |-> now,
                  comment_count |-> 0,
                  participant_count |-> 0,
                  is_archived |-> FALSE ]
        IN  Ret([ st EXCEPT
                    !.next_discussion_id = id + 1,
                    !.discussions = insert(@, id, discussion),
                    !.discussion_comments = insert(@, id, << >>),
                    !.user_discussions =
                        insert(@, caller, Append(or_default(@, caller, << >>), id)) ],
                Ok(id))

\* Mutant: the id is taken from the counter before the arguments are validated
create_discussion_id_first(st, caller, args, now) ==
    LET v == validate_create_discussion(args)
        id == st.next_discussion_id
        st0 == [ st EXCEPT !.next_discussion_id = id + 1 ]
    IN  IF ~v.ok THEN Ret(st0, v)
        ELSE
        LET discussion ==
                [ id |-> id,
                  title |-> args.title,
                  description |-> args.description,
                  category |-> args.category,
                  proposer |-> caller,
                  contributors |-> << >>,
                  stage |-> "Brainstorm",
                  created_at |-> now,
                  stage_changed_at |-> now,
                  comment_count |-> 0,
                  participant_count |-> 1,
                  is_archived |-> FALSE ]
        IN  Ret([ st0 EXCEPT
                    !.discussions = insert(@, id, discussion),
                    !.discussion_comments = insert(@, id, << >>),
                    !.discussion_participants =
                        insert(@, id, or_default(@, id, {}) \cup {caller}),
                    !.user_discussions =
                        insert(@, caller, Append(or_default(@, caller, << >>), id)) ],
                Ok(id))

create_discussion(st, caller, args, now) ==
    LET v == validate_create_discussion(args)
    IN  IF ~v.ok THEN Ret(st, v)
        ELSE
        LET id == st.next_discussion_id
            discussion ==
                [ id |-> id,
                  title |-> args.title,
                  description |-> args.description,
                  category |-> args.category,
                  proposer |-> caller,
                  contributors |-> << >>,
                  stage |-> "Brainstorm",
                  created_at |-> now,
                  stage_changed_at |-> now,
                  comment_count |-> 0,
                  participant_count |-> 1,
                  is_archived |-> FALSE ]
        IN  Ret([ st EXCEPT
                    !.next_discussion_id = id + 1,
                    !.discussions = insert(@, id, discussion),
                    !.discussion_comments = insert(@, id, << >>),
                    !.discussion_participants =
                        insert(@, id, or_default(@, id, {}) \cup {caller}),
                    !.user_discussions =
                        insert(@, caller, Append(or_default(@, caller, << >>), id)) ],
                Ok(id))

\* get_discussion: a copy of the record, if there is one
get_discussion(st, discussion_id) ==
    IF contains_key(st.discussions, discussion_id)
    THEN Some(st.discussions[discussion_id])
    ELSE None

\* Mutant: a contributor can archive the discussion
archive_discussion_by_contributor(st, caller, discussion_id, now) ==
    IF ~contains_key(st.discussions, discussion_id)
    THEN Ret(st, Err("Discussion not found"))
    ELSE
    LET discussion == st.discussions[discussion_id]
    IN  IF discussion.proposer # caller /\ ~contains(discussion.contributors, caller)
        THEN Ret(st, Err("Only the proposer can archive this discussion"))
        ELSE IF discussion.is_archived
        THEN Ret(st, Err("Discussion is already archived"))
        ELSE Ret([st EXCEPT !.discussions[discussion_id].is_archived = TRUE],
                 Ok("unit"))

archive_discussion(st, caller, discussion_id, now) ==
    IF ~contains_key(st.discussions, discussion_id)
    THEN Ret(st, Err("Discussion not found"))
    ELSE
    LET discussion == st.discussions[discussion_id]
    IN  IF discussion.proposer # caller
        THEN Ret(st, Err("Only the proposer can archive this discussion"))
        ELSE IF discussion.is_archived
        THEN Ret(st, Err("Discussion is already archived"))
        ELSE Ret([st EXCEPT !.discussions[discussion_id].is_archived = TRUE],
                 Ok("unit"))

\* Mutant: the caller is inserted whatever the author type
track_participant_any_author(st, caller, args) ==
    LET st1 == [ st EXCEPT !.discussion_participants =
                    insert(@, args.discussion_id,
                           or_default(@, args.discussion_id, {}) \cup {caller}) ]
    IN  [ st |-> st1, count |-> Some(get_participant_count(st1, args.discussion_id)) ]

\* add_comment, "Track human participants for quality gates": the store with the
\* caller in the participant set, and the new participant count, of a Human
\* comment; the store as it is and no count, of an Agent comment.
track_participant(st, caller, args) ==
    IF args.author_type = Human
    THEN LET st1 == [ st EXCEPT !.discussion_participants =
                         insert(@, args.discussion_id,
                                or_default(@, args.discussion_id, {}) \cup {caller}) ]
         IN  [ st |-> st1, count |-> Some(get_participant_count(st1, args.discussion_id)) ]
    ELSE [ st |-> st, count |-> None ]

\* Mutant: only Human comments are counted in comment_count
update_counts_humans_only(st, discussion_id, new_participant_count) ==
    IF contains_key(st.discussions, discussion_id) /\ new_participant_count # None
    THEN [ st EXCEPT
             !.discussions[discussion_id].comment_count = @ + 1,
             !.discussions[discussion_id].participant_count = new_participant_count[1] ]
    ELSE st

\* Mutant: participant_count is incremented by each Human comment
update_counts_increment(st, discussion_id, new_participant_count) ==
    IF contains_key(st.discussions, discussion_id)
    THEN [ st EXCEPT
             !.discussions[discussion_id].comment_count = @ + 1,
             !.discussions[discussion_id].participant_count =
                 IF new_participant_count # None THEN @ + 1 ELSE @ ]
    ELSE st

\* add_comment, "Update discussion comment count"
\* Mutant: a new comment is counted in every discussion
update_counts_everywhere(st, discussion_id, new_participant_count) ==
    IF contains_key(st.discussions, discussion_id)
    THEN [ st EXCEPT
             !.discussions =
                 [ d \in DOMAIN @ |-> [ @[d] EXCEPT !.comment_count = @ + 1 ] ],
             !.discussions[discussion_id].participant_count =
                 IF new_participant_count # None THEN new_participant_count[1] ELSE @ ]
    ELSE st

update_counts(st, discussion_id, new_participant_count) ==
    IF contains_key(st.discussions, discussion_id)
    THEN [ st EXCEPT
             !.discussions[discussion_id].comment_count = @ + 1,
             !.discussions[discussion_id].participant_count =
                 IF new_participant_count # None THEN new_participant_count[1] ELSE @ ]
    ELSE st

\* Mutant: the content is validated after the discussion and the caller are checked
add_comment_validate_last(st, caller, args, now) ==
    LET v == validate_comment(args)
        d == args.discussion_id
    IN  IF ~contains_key(st.discussions, d)
        THEN Ret(st, Err("Discussion not found"))
        ELSE IF st.discussions[d].is_archived
        THEN Ret(st, Err("Cannot comment on an archived discussion"))
        ELSE IF ~can_comment(st, d, caller)
        THEN Ret(st, Err("You are not authorized to comment on this discussion in its current stage"))
        ELSE IF ~v.ok THEN Ret(st, v)
        ELSE
        LET comment_id == st.next_comment_id
            comment ==
                [ id |-> comment_id,
                  discussion_id |-> d,
                  author |-> caller,
                  content |-> args.content,
                  author_type |-> args.author_type,
                  created_at |-> now,
                  is_retracted |-> FALSE,
                  retracted_at |-> None ]
            st1 == [ st EXCEPT
                       !.next_comment_id = comment_id + 1,
                       !.comments = insert(@, comment_id, comment),
                       !.discussion_comments =
                           insert(@, d, Append(or_default(@, d, << >>), comment_id)) ]
            tracked == track_participant(st1, caller, args)
        IN  Ret(update_counts(tracked.st, d, tracked.count), Ok(comment_id))

\* Mutant: the comment id counter is left where it was
add_comment_same_id(st, caller, args, now) ==
    LET v == validate_comment(args)
        d == args.discussion_id
    IN  IF ~v.ok THEN Ret(st, v)
        ELSE IF ~contains_key(st.discussions, d)
        THEN Ret(st, Err("Discussion not found"))
        ELSE IF st.discussions[d].is_archived
        THEN Ret(st, Err("Cannot comment on an archived discussion"))
        ELSE IF ~can_comment(st, d, caller)
        THEN Ret(st, Err("You are not authorized to comment on this discussion in its current stage"))
        ELSE
        LET comment_id == st.next_comment_id
            comment ==
                [ id |-> comment_id,
                  discussion_id |-> d,
                  author |-> caller,
                  content |-> args.content,
                  author_type |-> args.author_type,
                  created_at |-> now,
                  is_retracted |-> FALSE,
                  retracted_at |-> None ]
            st1 == [ st EXCEPT
                       !.comments = insert(@, comment_id, comment),
                       !.discussion_comments =
                           insert(@, d, Append(or_default(@, d, << >>), comment_id)) ]
            tracked == track_participant(st1, caller, args)
        IN  Ret(update_counts(tracked.st, d, tracked.count), Ok(comment_id))

add_comment(st, caller, args, now) ==
    LET v == validate_comment(args)
        d == args.discussion_id
    IN  IF ~v.ok THEN Ret(st, v)
        ELSE IF ~contains_key(st.discussions, d)
        THEN Ret(st, Err("Discussion not found"))
        ELSE IF st.discussions[d].is_archived
        THEN Ret(st, Err("Cannot comment on an archived discussion"))
        ELSE IF ~can_comment(st, d, caller)
        THEN Ret(st, Err("You are not authorized to comment on this discussion in its current stage"))
        ELSE
        LET comment_id == st.next_comment_id
            comment ==
                [ id |-> comment_id,
                  discussion_id |-> d,
                  author |-> caller,
                  content |-> args.content,
                  author_type |-> args.author_type,
                  created_at |-> now,
                  is_retracted |-> FALSE,
                  retracted_at |-> None ]
            st1 == [ st EXCEPT
                       !.next_comment_id = comment_id + 1,
                       !.comments = insert(@, comment_id, comment),
                       !.discussion_comments =
                           insert(@, d, Append(or_default(@, d, << >>), comment_id)) ]
            tracked == track_participant(st1, caller, args)
        IN  Ret(update_counts(tracked.st, d, tracked.count), Ok(comment_id))

\* Mutant: a retraction erases the content of the comment
retract_comment_erasing(st, caller, comment_id, now) ==
    IF ~contains_key(st.comments, comment_id)
    THEN Ret(st, Err("Comment not found"))
    ELSE
    LET comment == st.comments[comment_id]
    IN  IF comment.author # caller
        THEN Ret(st, Err("Only the comment author can retract this comment"))
        ELSE IF comment.is_retracted
        THEN Ret(st, Err("Comment is already retracted"))
        ELSE Ret([ st EXCEPT
                     !.comments[comment_id].content = Str(0, 0),
                     !.comments[comment_id].is_retracted = TRUE,
                     !.comments[comment_id].retracted_at = Some(now) ],
                 Ok("unit"))

\* Mutant: a retracted comment can be retracted again
retract_comment_again(st, caller, comment_id, now) ==
    IF ~contains_key(st.comments, comment_id)
    THEN Ret(st, Err("Comment not found"))
    ELSE
    LET comment == st.comments[comment_id]
    IN  IF comment.author # caller
        THEN Ret(st, Err("Only the comment author can retract this comment"))
        ELSE Ret([ st EXCEPT
                     !.comments[comment_id].is_retracted = TRUE,
                     !.comments[comment_id].retracted_at = Some(now) ],
                 Ok("unit"))

\* Mutant: the proposer of the discussion can retract the comments of others
retract_comment_by_proposer(st, caller, comment_id, now) ==
    IF ~contains_key(st.comments, comment_id)
    THEN Ret(st, Err("Comment not found"))
    ELSE
    LET comment == st.comments[comment_id]
    IN  IF comment.author # caller
           /\ st.discussions[comment.discussion_id].proposer # caller
        THEN Ret(st, Err("Only the comment author can retract this comment"))
        ELSE IF comment.is_retracted
        THEN Ret(st, Err("Comment is already retracted"))
        ELSE Ret([ st EXCEPT
                     !.comments[comment_id].is_retracted = TRUE,
                     !.comments[comment_id].retracted_at = Some(now) ],
                 Ok("unit"))

\* Mutant: the retraction time is written before the check of the flag
retract_comment_stamp_first(st, caller, comment_id, now) ==
    IF ~contains_key(st.comments, comment_id)
    THEN Ret(st, Err("Comment not found"))
    ELSE
    LET comment == st.comments[comment_id]
        st1 == [st EXCEPT !.comments[comment_id].retracted_at = Some(now)]
    IN  IF comment.author # caller
        THEN Ret(st, Err("Only the comment author can retract this comment"))
        ELSE IF comment.is_retracted
        THEN Ret(st1, Err("Comment is already retracted"))
        ELSE Ret([st1 EXCEPT !.comments[comment_id].is_retracted = TRUE], Ok("unit"))

\* Mutant: a Ready discussion that loses its fifth substantive comment goes
\* back to Refining
retract_comment_revoking(st, caller, comment_id, now) ==
    IF ~contains_key(st.comments, comment_id)
    THEN Ret(st, Err("Comment not found"))
    ELSE
    LET comment == st.comments[comment_id]
        d == comment.discussion_id
        st1 == [ st EXCEPT
                   !.comments[comment_id].is_retracted = TRUE,
                   !.comments[comment_id].retracted_at = Some(now) ]
    IN  IF comment.author # caller
        THEN Ret(st, Err("Only the comment author can retract this comment"))
        ELSE IF comment.is_retracted
        THEN Ret(st, Err("Comment is already retracted"))
        ELSE IF /\ contains_key(st1.discussions, d)
                /\ st1.discussions[d].stage = "Ready"
                /\ count_substantive_comments(st1, d) < MIN_SUBSTANTIVE_COMMENTS
        THEN Ret([ st1 EXCEPT !.discussions[d].stage = "Refining" ], Ok("unit"))
        ELSE Ret(st1, Ok("unit"))

retract_comment(st, caller, comment_id, now) ==
    IF ~contains_key(st.comments, comment_id)
    THEN Ret(st, Err("Comment not found"))
    ELSE
    LET comment == st.comments[comment_id]
    IN  IF comment.author # caller
        THEN Ret(st, Err("Only the comment author can retract this comment"))
        ELSE IF comment.is_retracted
        THEN Ret(st, Err("Comment is already retracted"))
        ELSE Ret([ st EXCEPT
                     !.comments[comment_id].is_retracted = TRUE,
                     !.comments[comment_id].retracted_at = Some(now) ],
                 Ok("unit"))

\* Mutant: the Ready arm yields Ready again instead of returning the error
target_stage_ready_again(current_stage) ==
    IF current_stage = "Brainstorm" THEN Ok("Refining") ELSE Ok("Ready")

\* advance_stage, the match on the current stage
target_stage(current_stage) ==
    IF current_stage = "Brainstorm" THEN Ok("Refining")
    ELSE IF current_stage = "Refining" THEN Ok("Ready")
    ELSE Err("Discussion is already in Ready stage")

\* Mutant: the gates are checked for every transition
gated_always(current_stage, target) == TRUE

\* advance_stage, "For Refining -> Ready, check quality gates"
gated(current_stage, target) ==
    current_stage = "Refining" /\ target = "Ready"

\* advance_stage, the error that lists the unmet criteria
gates_error(gate_status) ==
    ErrGates(
        (IF ~gate_status.participants_met
         THEN << Unmet("participants", gate_status.participants_count,
                       MIN_PARTICIPANTS) >> ELSE << >>)
        \o (IF ~gate_status.comments_met
            THEN << Unmet("substantive comments", gate_status.substantive_comments,
                          MIN_SUBSTANTIVE_COMMENTS) >> ELSE << >>)
        \o (IF ~gate_status.duration_met
            THEN << Unmet("time in Refining", gate_status.hours_in_refining, 48) >>
            ELSE << >>))

\* Mutant: the stage written is Ready whatever the target
perform_transition_to_ready(st, discussion_id, target, now) ==
    [ st EXCEPT
        !.discussions[discussion_id].stage = "Ready",
        !.discussions[discussion_id].stage_changed_at = now ]

\* Mutant: stage_changed_at is not reset
perform_transition_keep_time(st, discussion_id, target, now) ==
    [ st EXCEPT !.discussions[discussion_id].stage = target ]

\* advance_stage, "Perform the transition"
perform_transition(st, discussion_id, target, now) ==
    [ st EXCEPT
        !.discussions[discussion_id].stage = target,
        !.discussions[discussion_id].stage_changed_at = now ]

\* Mutant: the stage of an archived discussion can be advanced
advance_stage_on_archived(st, caller, discussion_id, now) ==
    IF ~contains_key(st.discussions, discussion_id)
    THEN Ret(st, Err("Discussion not found"))
    ELSE
    LET discussion == st.discussions[discussion_id]
        current_stage == discussion.stage
        target == target_stage(current_stage)
        v == validate_stage_transition(current_stage, target.val)
        gate_status == check_quality_gates(st, discussion_id, now)
    IN  IF ~is_proposer_or_contributor(st, discussion_id, caller)
        THEN Ret(st, Err("Only the proposer or a contributor can advance the stage"))
        ELSE IF ~target.ok THEN Ret(st, target)
        ELSE IF ~v.ok THEN Ret(st, v)
        ELSE IF gated(current_stage, target.val) /\ ~gate_status.all_met
        THEN Ret(st, gates_error(gate_status))
        ELSE Ret(perform_transition(st, discussion_id, target.val, now),
                 Ok(target.val))

advance_stage(st, caller, discussion_id, now) ==
    IF ~contains_key(st.discussions, discussion_id)
    THEN Ret(st, Err("Discussion not found"))
    ELSE
    LET discussion == st.discussions[discussion_id]
        current_stage == discussion.stage
        target == target_stage(current_stage)
        v == validate_stage_transition(current_stage, target.val)
        gate_status == check_quality_gates(st, discussion_id, now)
    IN  IF ~is_proposer_or_contributor(st, discussion_id, caller)
        THEN Ret(st, Err("Only the proposer or a contributor can advance the stage"))
        ELSE IF discussion.is_archived
        THEN Ret(st, Err("Cannot advance stage of an archived discussion"))
        ELSE IF ~target.ok THEN Ret(st, target)
        ELSE IF ~v.ok THEN Ret(st, v)
        ELSE IF gated(current_stage, target.val) /\ ~gate_status.all_met
        THEN Ret(st, gates_error(gate_status))
        ELSE Ret(perform_transition(st, discussion_id, target.val, now),
                 Ok(target.val))

\* Mutant: the proposer can be invited
invite_contributor_proposer_too(st, caller, discussion_id, invitee, now) ==
    IF ~contains_key(st.discussions, discussion_id)
    THEN Ret(st, Err("Discussion not found"))
    ELSE
    LET discussion == st.discussions[discussion_id]
        key == <<discussion_id, invitee>>
    IN  IF ~is_proposer_or_contributor(st, discussion_id, caller)
        THEN Ret(st, Err("Only the proposer or a contributor can invite others"))
        ELSE IF discussion.is_archived
        THEN Ret(st, Err("Cannot invite to an archived discussion"))
        ELSE IF contains(discussion.contributors, invitee)
        THEN Ret(st, Err("User is already a contributor"))
        ELSE IF contains_key(st.invites, key)
        THEN Ret(st, Err("User already has a pending invitation"))
        ELSE Ret([ st EXCEPT !.invites =
                      insert(@, key, [ discussion_id |-> discussion_id,
                                       invitee |-> invitee,
                                       invited_by |-> caller,
                                       invited_at |-> now,
                                       status |-> "Pending" ]) ],
                 Ok("unit"))

\* Mutant: invitations can be sent on an archived discussion
invite_contributor_archived_too(st, caller, discussion_id, invitee, now) ==
    IF ~contains_key(st.discussions, discussion_id)
    THEN Ret(st, Err("Discussion not found"))
    ELSE
    LET discussion == st.discussions[discussion_id]
        key == <<discussion_id, invitee>>
    IN  IF ~is_proposer_or_contributor(st, discussion_id, caller)
        THEN Ret(st, Err("Only the proposer or a contributor can invite others"))
        ELSE IF discussion.proposer = invitee
        THEN Ret(st, Err("Cannot invite the proposer"))
        ELSE IF contains(discussion.contributors, invitee)
        THEN Ret(st, Err("User is already a contributor"))
        ELSE IF contains_key(st.invites, key)
        THEN Ret(st, Err("User already has a pending invitation"))
        ELSE Ret([ st EXCEPT !.invites =
                      insert(@, key, [ discussion_id |-> discussion_id,
                                       invitee |-> invitee,
                                       invited_by |-> caller,
                                       invited_at |-> now,
                                       status |-> "Pending" ]) ],
                 Ok("unit"))

\* Mutant: a principal whose invite is not Pending can be invited again
invite_contributor_pending_only(st, caller, discussion_id, invitee, now) ==
    IF ~contains_key(st.discussions, discussion_id)
    THEN Ret(st, Err("Discussion not found"))
    ELSE
    LET discussion == st.discussions[discussion_id]
        key == <<discussion_id, invitee>>
    IN  IF ~is_proposer_or_contributor(st, discussion_id, caller)
        THEN Ret(st, Err("Only the proposer or a contributor can invite others"))
        ELSE IF discussion.is_archived
        THEN Ret(st, Err("Cannot invite to an archived discussion"))
        ELSE IF discussion.proposer = invitee
        THEN Ret(st, Err("Cannot invite the proposer"))
        ELSE IF contains(discussion.contributors, invitee)
        THEN Ret(st, Err("User is already a contributor"))
        ELSE IF contains_key(st.invites, key) /\ st.invites[key].status = "Pending"
        THEN Ret(st, Err("User already has a pending invitation"))
        ELSE Ret([ st EXCEPT !.invites =
                      insert(@, key, [ discussion_id |-> discussion_id,
                                       invitee |-> invitee,
                                       invited_by |-> caller,
                                       invited_at |-> now,
                                       status |-> "Pending" ]) ],
                 Ok("unit"))

invite_contributor(st, caller, discussion_id, invitee, now) ==
    IF ~contains_key(st.discussions, discussion_id)
    THEN Ret(st, Err("Discussion not found"))
    ELSE
    LET discussion == st.discussions[discussion_id]
    IN  IF ~is_proposer_or_contributor(st, discussion_id, caller)
        THEN Ret(st, Err("Only the proposer or a contributor can invite others"))
        ELSE IF discussion.is_archived
        THEN Ret(st, Err("Cannot invite to an archived discussion"))
        ELSE IF discussion.proposer = invitee
        THEN Ret(st, Err("Cannot invite the proposer"))
        ELSE IF contains(discussion.contributors, invitee)
        THEN Ret(st, Err("User is already a contributor"))
        ELSE IF contains_key(st.invites, <<discussion_id, invitee>>)
        THEN Ret(st, Err("User already has a pending invitation"))
        ELSE
        LET invite == [ discussion_id |-> discussion_id,
                        invitee |-> invitee,
                        invited_by |-> caller,
                        invited_at |-> now,
                        status |-> "Pending" ]
        IN  Ret([ st EXCEPT !.invites =
                      insert(@, <<discussion_id, invitee>>, invite) ],
                Ok("unit"))

\* Mutant: an invite that was answered can be answered again
respond_to_invite_again(st, caller, discussion_id, accept, now) ==
    LET key == <<discussion_id, caller>>
    IN  IF ~contains_key(st.invites, key)
        THEN Ret(st, Err("No invitation found for you"))
        ELSE IF accept
        THEN LET st1 == [st EXCEPT !.invites[key].status = "Accepted"]
                 st2 == IF contains_key(st1.discussions, discussion_id)
                           /\ ~contains(st1.discussions[discussion_id].contributors, caller)
                        THEN [ st1 EXCEPT !.discussions[discussion_id].contributors =
                                   Append(@, caller) ]
                        ELSE st1
             IN  Ret(st2, Ok("unit"))
        ELSE Ret([st EXCEPT !.invites[key].status = "Declined"], Ok("unit"))

\* Mutant: the caller becomes a contributor whatever the answer
respond_to_invite_always_adds(st, caller, discussion_id, accept, now) ==
    LET key == <<discussion_id, caller>>
    IN  IF ~contains_key(st.invites, key)
        THEN Ret(st, Err("No invitation found for you"))
        ELSE IF st.invites[key].status # "Pending"
        THEN Ret(st, Err("Invitation has already been responded to"))
        ELSE
        LET st1 == [st EXCEPT !.invites[key].status =
                        IF accept THEN "Accepted" ELSE "Declined"]
        IN  Ret([ st1 EXCEPT !.discussions[discussion_id].contributors =
                      Append(@, caller) ],
                Ok("unit"))

\* Mutant: an invite to an archived discussion can no longer be answered
respond_to_invite_unless_archived(st, caller, discussion_id, accept, now) ==
    LET key == <<discussion_id, caller>>
    IN  IF ~contains_key(st.invites, key)
        THEN Ret(st, Err("No invitation found for you"))
        ELSE IF st.invites[key].status # "Pending"
        THEN Ret(st, Err("Invitation has already been responded to"))
        ELSE IF contains_key(st.discussions, discussion_id)
                /\ st.discussions[discussion_id].is_archived
        THEN Ret(st, Err("Cannot respond to an invite of an archived discussion"))
        ELSE IF accept
        THEN LET st1 == [st EXCEPT !.invites[key].status = "Accepted"]
                 st2 == IF contains_key(st1.discussions, discussion_id)
                           /\ ~contains(st1.discussions[discussion_id].contributors, caller)
                        THEN [ st1 EXCEPT !.discussions[discussion_id].contributors =
                                   Append(@, caller) ]
                        ELSE st1
             IN  Ret(st2, Ok("unit"))
        ELSE Ret([st EXCEPT !.invites[key].status = "Declined"], Ok("unit"))

respond_to_invite(st, caller, discussion_id, accept, now) ==
    LET key == <<discussion_id, caller>>
    IN  IF ~contains_key(st.invites, key)
        THEN Ret(st, Err("No invitation found for you"))
        ELSE IF st.invites[key].status # "Pending"
        THEN Ret(st, Err("Invitation has already been responded to"))
        ELSE IF accept
        THEN LET st1 == [st EXCEPT !.invites[key].status = "Accepted"]
                 \* Add to contributors list
                 st2 == IF contains_key(st1.discussions, discussion_id)
                           /\ ~contains(st1.discussions[discussion_id].contributors, caller)
                        THEN [ st1 EXCEPT !.discussions[discussion_id].contributors =
                                   Append(@, caller) ]
                        ELSE st1
             IN  Ret(st2, Ok("unit"))
        ELSE Ret([st EXCEPT !.invites[key].status = "Declined"], Ok("unit"))

get_quality_gate_status(st, discussion_id, now) ==
    IF contains_key(st.discussions, discussion_id)
    THEN Some(check_quality_gates(st, discussion_id, now))
    ELSE None

\* ------------------------------------------------------------------------
\* state.rs: the ledger's read operations
\* ------------------------------------------------------------------------
\* Iterator::skip, Iterator::take
skip(v, n) == IF n >= Len(v) THEN << >> ELSE SubSeq(v, n + 1, Len(v))
take(v, n) == IF n >= Len(v) THEN v ELSE SubSeq(v, 1, n)
\* .filter_map(|id| self.comments.get(id)).cloned().collect()
filter_map_get(m, ids) ==
    LET found == SelectSeq(ids, LAMBDA id : contains_key(m, id))
    IN  [ i \in 1..Len(found) |-> m[found[i]] ]

\* A u64 argument, written hi * 2^32 + lo
U64(hi, lo) == [hi |-> hi, lo |-> lo]
\* `as usize`: the canister is built for wasm32-unknown-unknown, where usize
\* has 32 bits, and the cast keeps the low 32 bits of the u64
as_usize(n) == n.lo

get_discussion_comments(st, discussion_id, offset, limit) ==
    IF contains_key(st.discussion_comments, discussion_id)
    THEN filter_map_get(st.comments,
             take(skip(st.discussion_comments[discussion_id], as_usize(offset)),
                  as_usize(limit)))
    ELSE << >>

get_all_discussion_comments(st, discussion_id) ==
    IF contains_key(st.discussion_comments, discussion_id)
    THEN filter_map_get(st.comments, st.discussion_comments[discussion_id])
    ELSE << >>

\* api.rs: get_comments
get_comments(st, discussion_id, offset, limit) ==
    get_discussion_comments(st, discussion_id, offset, limit)

\* BTreeMap::values: the values in ascending order of their keys
RECURSIVE ascending(_)
ascending(keys) ==
    IF keys = {} THEN << >>
    ELSE LET least == CHOOSE k \in keys : \A other \in keys : k <= other
         IN  << least >> \o ascending(keys \ {least})
values(m) == LET ks == ascending(DOMAIN m) IN [ i \in 1..Len(ks) |-> m[ks[i]] ]

\* Option::unwrap_or
unwrap_or(opt, dflt) == IF opt = None THEN dflt ELSE opt[1]
\* DiscussionFilter with nothing set
NoCriteria ==
    [ stage |-> None, category |-> None, proposer |-> None, include_archived |-> None ]

\* Vec::retain by one optional criterion of the filter
retain_eq(v, opt, field) ==
    IF opt = None THEN v ELSE SelectSeq(v, LAMBDA d : d[field] = opt[1])
retain_not_archived(v) == SelectSeq(v, LAMBDA d : ~d.is_archived)

\* Mutant: a filter that leaves include_archived out lists the archived ones too
list_discussions_filter_shows_archived(st, filter) ==
    LET discussions == values(st.discussions)
    IN  IF filter # None
        THEN LET f == filter[1]
                 by_stage == retain_eq(discussions, f.stage, "stage")
                 by_category == retain_eq(by_stage, f.category, "category")
                 by_proposer == retain_eq(by_category, f.proposer, "proposer")
             IN  IF ~unwrap_or(f.include_archived, TRUE)
                 THEN retain_not_archived(by_proposer)
                 ELSE by_proposer
        ELSE retain_not_archived(discussions)

list_discussions(st, filter) ==
    LET discussions == values(st.discussions)
    IN  IF filter # None
        THEN LET f == filter[1]
                 by_stage == retain_eq(discussions, f.stage, "stage")
                 by_category == retain_eq(by_stage, f.category, "category")
                 by_proposer == retain_eq(by_category, f.proposer, "proposer")
             IN  IF ~unwrap_or(f.include_archived, FALSE)
                 THEN retain_not_archived(by_proposer)
                 ELSE by_proposer
        ELSE retain_not_archived(discussions)

\* ------------------------------------------------------------------------
\* hash.rs
\* ------------------------------------------------------------------------
\* A string given by its UTF-8 bytes, one byte per character
Text(seq) == [bytes |-> Len(seq), chars |-> Len(seq), text |-> seq]
as_bytes(s) == s.text
\* u64::to_le_bytes: eight bytes, the least significant first (the values
\* here fit in the low four)
to_le_bytes(n) ==
    [ i \in 1..8 |-> IF i <= 4 THEN (n \div (256 ^ (i - 1))) % 256 ELSE 0 ]
\* Principal::as_slice: the principal's bytes
as_slice(principal) ==
    CASE principal = "p1" -> << 1 >>
      [] principal = "p2" -> << 2 >>
      [] principal = "p3" -> << 3 >>
\* format!("{:?}", category).as_bytes(): the variant's name in ASCII
format_debug(category) ==
    CASE category = "Constitutional" ->
            << 67, 111, 110, 115, 116, 105, 116, 117, 116, 105, 111, 110, 97, 108 >>
      [] category = "Operational" ->
            << 79, 112, 101, 114, 97, 116, 105, 111, 110, 97, 108 >>
      [] category = "Treasury" ->
            << 84, 114, 101, 97, 115, 117, 114, 121 >>
      [] category = "SoftwareDevelopment" ->
            << 83, 111, 102, 116, 119, 97, 114, 101, 68, 101, 118, 101, 108,
               111, 112, 109, 101, 110, 116 >>

\* Mutant: the retraction flag is not fed to the hasher
comment_bytes_without_flag(comment) ==
    to_le_bytes(comment.id)
    \o as_slice(comment.author)
    \o as_bytes(comment.content)
    \o to_le_bytes(comment.created_at)

\* The bytes one comment adds to the hasher
comment_bytes(comment) ==
    to_le_bytes(comment.id)
    \o as_slice(comment.author)
    \o as_bytes(comment.content)
    \o to_le_bytes(comment.created_at)
    \o (IF comment.is_retracted THEN << 1 >> ELSE << 0 >>)

RECURSIVE comments_bytes(_)
comments_bytes(comments) ==
    IF comments = << >> THEN << >>
    ELSE comment_bytes(Head(comments)) \o comments_bytes(Tail(comments))

\* Mutant: the archived flag is fed to the hasher too
hasher_input_with_archived(discussion, comments) ==
    to_le_bytes(discussion.id)
    \o as_bytes(discussion.title)
    \o as_bytes(discussion.description)
    \o format_debug(discussion.category)
    \o as_slice(discussion.proposer)
    \o (IF discussion.is_archived THEN << 1 >> ELSE << 0 >>)
    \o comments_bytes(comments)

\* Everything the hasher is fed, in the order of the update calls
hasher_input(discussion, comments) ==
    to_le_bytes(discussion.id)
    \o as_bytes(discussion.title)
    \o as_bytes(discussion.description)
    \o format_debug(discussion.category)
    \o as_slice(discussion.proposer)
    \o comments_bytes(comments)

\* hex::encode(hasher.finalize()): SHA-256 is taken to be free of collisions,
\* so a digest is represented by the byte stream it was computed from
generate_discussion_hash(discussion, comments) ==
    [ sha256_of |-> hasher_input(discussion, comments) ]

\* api.rs: get_discussion_hash
get_discussion_hash(st, discussion_id) ==
    IF get_discussion(st, discussion_id) = None THEN None
    ELSE Some(generate_discussion_hash(get_discussion(st, discussion_id)[1],
                                       get_all_discussion_comments(st, discussion_id)))

\* ------------------------------------------------------------------------
\* state.rs: StableDiscussionState, the form the store is saved in across
\* canister upgrades
\* ------------------------------------------------------------------------
\* Ord of the keys: ids by value, principals by their bytes, invite keys
\* (DiscussionId, Principal) by id and then by principal
id_lt(a, b) == a < b
principal_lt(a, b) == as_slice(a)[1] < as_slice(b)[1]
invite_key_lt(a, b) == a[1] < b[1] \/ (a[1] = b[1] /\ principal_lt(a[2], b[2]))

\* The Ord of a key type, named by the type
lt(ord, a, b) ==
    CASE ord = "DiscussionId" -> id_lt(a, b)
      [] ord = "CommentId" -> id_lt(a, b)
      [] ord = "Principal" -> principal_lt(a, b)
      [] ord = "(DiscussionId, Principal)" -> invite_key_lt(a, b)

\* The elements of a set in ascending order of their type
sorted(S, ord) ==
    [ i \in 1..Cardinality(S) |->
        CHOOSE k \in S : Cardinality({ j \in S : lt(ord, j, k) }) = i - 1 ]
\* BTreeMap::iter().map(|(k, v)| (*k, v.clone())).collect(): the entries as a
\* vector of pairs, in key order
iter_collect(m, ord) ==
    LET keys == sorted(DOMAIN m, ord)
    IN  [ i \in 1..Len(keys) |-> << keys[i], m[keys[i]] >> ]
\* Vec<(K, V)>::into_iter().collect() into a BTreeMap: a later pair replaces
\* an earlier one with the same key
into_map(pairs) ==
    [ k \in { pairs[i][1] : i \in 1..Len(pairs) } |->
        LET last == CHOOSE i \in 1..Len(pairs) :
                        /\ pairs[i][1] = k
                        /\ \A j \in 1..Len(pairs) : pairs[j][1] = k => j <= i
        IN  pairs[last][2] ]
\* Vec<Principal>::into_iter().collect() into a BTreeSet
into_set(v) == { v[i] : i \in 1..Len(v) }

\* impl From<&DiscussionState> for StableDiscussionState
StableDiscussionState_from(st) ==
    [ discussions |-> iter_collect(st.discussions, "DiscussionId"),
      comments |-> iter_collect(st.comments, "CommentId"),
      discussion_comments |-> iter_collect(st.discussion_comments, "DiscussionId"),
      invites |-> iter_collect(st.invites, "(DiscussionId, Principal)"),
      discussion_participants |->
          iter_collect([ d \in DOMAIN st.discussion_participants |->
                           sorted(st.discussion_participants[d], "Principal") ],
                       "DiscussionId"),
      user_discussions |-> iter_collect(st.user_discussions, "Principal"),
      next_discussion_id |-> st.next_discussion_id,
      next_comment_id |-> st.next_comment_id ]

\* Mutant: the restored store starts its id counters afresh
DiscussionState_from_fresh_counters(stable) ==
    [ discussions |-> into_map(stable.discussions),
      comments |-> into_map(stable.comments),
      discussion_comments |-> into_map(stable.discussion_comments),
      invites |-> into_map(stable.invites),
      discussion_participants |->
          LET sets == into_map(stable.discussion_participants)
          IN  [ d \in DOMAIN sets |-> into_set(sets[d]) ],
      user_discussions |-> into_map(stable.user_discussions),
      next_discussion_id |-> new.next_discussion_id,
      next_comment_id |-> new.next_comment_id ]

\* impl From<StableDiscussionState> for DiscussionState
DiscussionState_from(stable) ==
    [ discussions |-> into_map(stable.discussions),
      comments |-> into_map(stable.comments),
      discussion_comments |-> into_map(stable.discussion_comments),
      invites |-> into_map(stable.invites),
      discussion_participants |->
          LET sets == into_map(stable.discussion_participants)
          IN  [ d \in DOMAIN sets |-> into_set(sets[d]) ],
      user_discussions |-> into_map(stable.user_discussions),
      next_discussion_id |-> stable.next_discussion_id,
      next_comment_id |-> stable.next_comment_id ]

\* ------------------------------------------------------------------------
\* The state machine
\* ------------------------------------------------------------------------
VARIABLES
    state,   \* DISCUSSION_STATE, the thread-local store
    clock,   \* ic_cdk::api::time(), read by every endpoint as `now`
    hist     \* history: per discussion, the calls that succeeded so far

vars == << state, clock, hist >>

\* The time source advances by 24 hours at a time: half the gate's duration,
\* so that both sides of the 48 hour threshold and the threshold itself occur.
TickStep == MIN_REFINING_DURATION_NS \div 2

\* Inputs
ValidTitle == Str(5, 5)
ValidDescription == Str(11, 11)
Titles == { Str(0, 0), ValidTitle, Str(MAX_TITLE_LEN + 1, MAX_TITLE_LEN + 1) }
Descriptions == { Str(0, 0), ValidDescription,
                  Str(MAX_DESCRIPTION_LEN + 1, MAX_DESCRIPTION_LEN + 1) }
Categories == { "Operational" }
\* 49 two-byte chars: 98 bytes but below the 50 chars of a substantive comment
ShortContent == Str(98, 49)
LongContent == Str(50, 50)
Contents == { Str(0, 0), ShortContent, LongContent,
              Str(MAX_COMMENT_LEN + 1, MAX_COMMENT_LEN + 1) }
AuthorTypes == { Human, Agent("a1") }

\* Arguments: the valid ones and, for each check of the validators, one that fails it
CreateArgs ==
    [ title : Titles, description : { ValidDescription }, category : Categories ]
    \cup [ title : { ValidTitle }, description : Descriptions, category : Categories ]
CommentInputs ==
    [ content : { ShortContent, LongContent }, author_type : AuthorTypes ]
    \cup [ content : Contents, author_type : { Human } ]
\* Principals are interchangeable (the code only compares them), so the first
\* discussion is p1's and the others are p1's or p2's.
Proposers == IF state.next_discussion_id = 1 THEN { "p1" } ELSE { "p1", "p2" }

\* The history of a discussion: the number of add_comment calls that succeeded,
\* the number of advance_stage calls that succeeded, their callers, and the
\* times of the calls that returned Refining and Ready.
NoHist == [ added |-> 0, advanced |-> 0, advanced_by |-> {},
            refining_at |-> None, ready_at |-> None ]

Init ==
    /\ state = new
    /\ clock = 0
    /\ hist = EmptyMap

\* A call: the store becomes what the operation returns.  A failed call is a
\* step that leaves every variable as it is.
Call(op, r) ==
    /\ state' = r.st

\* Every successful call leaves a mark in the store (a discussion, a comment, a
\* retraction, a stage, an archived flag, an invite, an answer), so the number
\* of successful calls made so far is a function of the store.
Calls(st) ==
    Cardinality(DOMAIN st.discussions)
    + Cardinality(DOMAIN st.comments)
    + Cardinality({ c \in DOMAIN st.comments : st.comments[c].is_retracted })
    + Cardinality({ d \in DOMAIN st.discussions : st.discussions[d].stage # "Brainstorm" })
    + Cardinality({ d \in DOMAIN st.discussions : st.discussions[d].stage = "Ready" })
    + Cardinality({ d \in DOMAIN st.discussions : st.discussions[d].is_archived })
    + Cardinality(DOMAIN st.invites)
    + Cardinality({ k \in DOMAIN st.invites : st.invites[k].status # "Pending" })

Steps == Calls(state) + clock \div TickStep

CreateDiscussion(caller, args) ==
    LET r == create_discussion(state, caller, args, clock)
    IN  /\ Call("create_discussion", r)
        /\ hist' = IF r.res.ok THEN insert(hist, r.res.val, NoHist) ELSE hist
        /\ UNCHANGED clock

ArchiveDiscussion(caller, discussion_id) ==
    /\ Call("archive_discussion", archive_discussion(state, caller, discussion_id, clock))
    /\ UNCHANGED << clock, hist >>

AddComment(caller, args) ==
    LET r == add_comment(state, caller, args, clock)
    IN  /\ Call("add_comment", r)
        /\ hist' = IF r.res.ok
                   THEN [hist EXCEPT ![args.discussion_id].added = @ + 1]
                   ELSE hist
        /\ UNCHANGED clock

RetractComment(caller, comment_id) ==
    /\ Call("retract_comment", retract_comment(state, caller, comment_id, clock))
    /\ UNCHANGED << clock, hist >>

AdvanceStage(caller, discussion_id) ==
    LET r == advance_stage(state, caller, discussion_id, clock)
    IN  /\ Call("advance_stage", r)
        /\ hist' = IF r.res.ok
                   THEN [hist EXCEPT
                            ![discussion_id].advanced = @ + 1,
                            ![discussion_id].advanced_by = @ \cup {caller},
                            ![discussion_id].refining_at =
                                IF r.res.val = "Refining" THEN Some(clock) ELSE @,
                            ![discussion_id].ready_at =
                                IF r.res.val = "Ready" THEN Some(clock) ELSE @]
                   ELSE hist
        /\ UNCHANGED clock

InviteContributor(caller, discussion_id, invitee) ==
    /\ Call("invite_contributor",
            invite_contributor(state, caller, discussion_id, invitee, clock))
    /\ UNCHANGED << clock, hist >>

RespondToInvite(caller, discussion_id, accept) ==
    /\ Call("respond_to_invite",
            respond_to_invite(state, caller, discussion_id, accept, clock))
    /\ UNCHANGED << clock, hist >>

Tick ==
    /\ clock' = clock + TickStep
    /\ UNCHANGED << state, hist >>

\* Ids a caller can name: every id in use and the next, unused one.
DiscussionIds == 1..state.next_discussion_id
CommentIds == 1..state.next_comment_id

\* Calls and ticks are made while the budget of successful calls and ticks lasts.
Within(cap) == Steps < cap

Next ==
    \/ /\ Within(MaxCalls)
       /\ \E caller \in Proposers, args \in CreateArgs :
            CreateDiscussion(caller, args)
    \/ /\ Within(MaxCalls)
       /\ \E caller \in Principals, d \in DiscussionIds :
            ArchiveDiscussion(caller, d)
    \/ /\ Within(MaxCalls)
       /\ \E caller \in Principals, d \in DiscussionIds, input \in CommentInputs :
            AddComment(caller, [ discussion_id |-> d, content |-> input.content,
                                 author_type |-> input.author_type ])
    \/ /\ Within(MaxCalls)
       /\ \E caller \in Principals, c \in CommentIds :
            RetractComment(caller, c)
    \/ /\ Within(MaxCalls)
       /\ \E caller \in Principals, d \in DiscussionIds :
            AdvanceStage(caller, d)
    \/ /\ Within(MaxCalls)
       /\ \E caller \in Principals, d \in DiscussionIds, invitee \in Principals :
            InviteContributor(caller, d, invitee)
    \/ /\ Within(MaxCalls)
       /\ \E caller \in Principals, d \in DiscussionIds, accept \in BOOLEAN :
            RespondToInvite(caller, d, accept)
    \/ /\ Within(MaxCalls)
       /\ Tick

Spec == Init /\ [][Next]_vars

\* ------------------------------------------------------------------------
\* GateSpec: one discussion on its way to Ready, from the empty store.
\* Reaching Ready takes a discussion, five substantive comments of three
\* participants, two stage changes and 48 hours, so the inputs are narrowed
\* to that path and the tables are capped by numbers of comments and ticks:
\*   - p1 creates the discussion, with valid arguments, at time 0;
\*   - comments are human comments of 50 chars by p2 and p3, posted at time 0;
\*   - invitations go to p2 and are sent and answered at time 0;
\*   - at most one comment is retracted;
\*   - retract, advance and archive are called by anybody at any time.
\* ------------------------------------------------------------------------
GateProposer == "p1"
GateArgs == [ title |-> ValidTitle, description |-> ValidDescription,
              category |-> "Operational" ]
GateCommenters == { "p2", "p3" }
GateInvitees == { "p2" }
Retracted(st) == { c \in DOMAIN st.comments : st.comments[c].is_retracted }

GateNext ==
    \/ /\ state.next_discussion_id = new.next_discussion_id
       /\ clock = 0
       /\ CreateDiscussion(GateProposer, GateArgs)
    \/ \E caller \in GateCommenters, d \in DiscussionIds :
            /\ clock = 0
            /\ state.next_comment_id <= GateMaxComments
            /\ AddComment(caller, [ discussion_id |-> d, content |-> LongContent,
                                    author_type |-> Human ])
    \/ \E caller \in Principals, c \in CommentIds :
            /\ Retracted(state) = {}
            /\ RetractComment(caller, c)
    \/ \E caller \in Principals, d \in DiscussionIds :
            AdvanceStage(caller, d)
    \/ \E caller \in Principals, d \in DiscussionIds :
            ArchiveDiscussion(caller, d)
    \/ \E caller \in Principals, d \in DiscussionIds, invitee \in GateInvitees :
            /\ clock = 0
            /\ InviteContributor(caller, d, invitee)
    \/ \E caller \in Principals, d \in DiscussionIds, accept \in BOOLEAN :
            /\ clock = 0
            /\ RespondToInvite(caller, d, accept)
    \/ /\ Tick
       /\ clock < GateMaxTicks * TickStep

GateSpec == Init /\ [][GateNext]_vars

\* ------------------------------------------------------------------------
\* Properties
\* ------------------------------------------------------------------------
Discussions == DOMAIN state.discussions
\* The times a call is tried at: now, 48 hours from now, and time 0
NowValues == { clock, clock + MIN_REFINING_DURATION_NS, 0 }

\* The caller is the proposer of d or one of its contributors
Authorized(d, caller) ==
    \/ state.discussions[d].proposer = caller
    \/ \E i \in 1..Len(state.discussions[d].contributors) :
            state.discussions[d].contributors[i] = caller

\* The comments of d that count for the gate, read from the comments table
SubstantiveOf(d) ==
    { c \in DOMAIN state.comments :
        /\ state.comments[c].discussion_id = d
        /\ ~state.comments[c].is_retracted
        /\ state.comments[c].author_type.kind = "Human"
        /\ state.comments[c].content.chars >= 50 }

\* C1: in every step, each discussion's stage stays as it is or moves from
\* Brainstorm to Refining or from Refining to Ready, and it moves only in a step
\* in which an advance_stage call on that discussion succeeds.
C1_StageOrder ==
    [][ \A d \in Discussions :
            /\ d \in DOMAIN state'.discussions
            /\ LET a == state.discussions[d].stage
                   b == state'.discussions[d].stage
               IN  /\ \/ a = b
                      \/ a = "Brainstorm" /\ b = "Refining"
                      \/ a = "Refining" /\ b = "Ready"
                   /\ a # b <=> hist'[d].advanced = hist[d].advanced + 1
                   /\ a = b => hist'[d].advanced = hist[d].advanced ]_vars

\* C1 witness: a discussion went both steps, among other operations: it is
\* Ready, has a contributor and a retracted comment.
C1_Witness ==
    \E d \in Discussions :
        /\ state.discussions[d].stage = "Ready"
        /\ hist[d].advanced = 2
        /\ state.discussions[d].contributors # << >>
        /\ \E c \in Retracted(state) : state.comments[c].discussion_id = d

\* C2: on a discussion in Refining that is not archived, advance_stage by the
\* proposer or a contributor succeeds, returning Ready, exactly when the
\* participant count is at least 3, at least 5 comments are substantive and 48
\* hours have passed since stage_changed_at, which is when
\* get_quality_gate_status reports all_met; otherwise it fails with the
\* quality gate error and the store stays as it is.
C2_GateIff ==
    \A d \in Discussions, caller \in Principals, now \in NowValues :
        LET discussion == state.discussions[d]
            r == advance_stage(state, caller, d, now)
            met == /\ discussion.participant_count >= MIN_PARTICIPANTS
                   /\ Cardinality(SubstantiveOf(d)) >= MIN_SUBSTANTIVE_COMMENTS
                   /\ now - discussion.stage_changed_at >= 48 * NS_PER_HOUR
        IN  (discussion.stage = "Refining" /\ ~discussion.is_archived
                /\ Authorized(d, caller))
            => /\ r.res.ok <=> met
               /\ met <=> get_quality_gate_status(state, d, now)[1].all_met
               /\ r.res.ok => /\ r.res.val = "Ready"
                              /\ r.st.discussions[d].stage = "Ready"
               /\ ~r.res.ok => /\ r.res.msg = "Quality gates not met"
                               /\ r.res.missing # << >>
                               /\ r.st = state

\* C2 witness: a discussion has just become Ready, by a call made with exactly
\* 3 participants, 5 substantive comments and 48 hours in Refining.
C2_Witness ==
    \E d \in Discussions :
        /\ state.discussions[d].stage = "Ready"
        /\ hist[d].ready_at = Some(clock)
        /\ hist[d].refining_at = Some(clock - MIN_REFINING_DURATION_NS)
        /\ state.discussions[d].participant_count = MIN_PARTICIPANTS
        /\ Cardinality(SubstantiveOf(d)) = MIN_SUBSTANTIVE_COMMENTS

\* C3: stage_changed_at is the time of the last successful advance_stage, and a
\* discussion in Ready became Ready at least 48 hours after it became Refining.
C3_ReadyAfter48h ==
    \A d \in Discussions :
        LET discussion == state.discussions[d]
        IN  /\ discussion.stage = "Brainstorm" =>
                discussion.stage_changed_at = discussion.created_at
            /\ discussion.stage = "Refining" =>
                hist[d].refining_at = Some(discussion.stage_changed_at)
            /\ discussion.stage = "Ready" =>
                /\ hist[d].ready_at = Some(discussion.stage_changed_at)
                /\ hist[d].refining_at # None
                /\ hist[d].ready_at[1] - hist[d].refining_at[1] >= 48 * NS_PER_HOUR

\* C3 witness: a discussion that became Refining a day after its creation is Ready.
C3_Witness ==
    \E d \in Discussions :
        /\ state.discussions[d].stage = "Ready"
        /\ hist[d].refining_at[1] > state.discussions[d].created_at

\* C4: advance_stage on a discussion in Ready fails for every caller at every
\* time and leaves the store as it is (for the proposer and the contributors of
\* a discussion that is not archived, with the error of the Ready stage), and
\* no discussion has more than two successful advance_stage calls.
C4_ReadyTerminal ==
    \A d \in Discussions :
        /\ hist[d].advanced <= 2
        /\ state.discussions[d].stage = "Ready" =>
            \A caller \in Principals, now \in NowValues :
                LET r == advance_stage(state, caller, d, now)
                IN  /\ ~r.res.ok
                    /\ r.st = state
                    /\ (Authorized(d, caller) /\ ~state.discussions[d].is_archived)
                        => r.res.msg = "Discussion is already in Ready stage"

\* C4 witness: a discussion is Ready, is not archived, and a later call of its
\* proposer at a later time is answered with the error of the Ready stage.
C4_Witness ==
    \E d \in Discussions :
        /\ state.discussions[d].stage = "Ready"
        /\ ~state.discussions[d].is_archived
        /\ clock > state.discussions[d].stage_changed_at
        /\ ~advance_stage(state, state.discussions[d].proposer, d, clock).res.ok

\* C5: on a discussion in Brainstorm that is not archived, advance_stage by the
\* proposer or a contributor succeeds at any time and returns Refining,
\* whatever the counts of participants and comments.
C5_BrainstormAdvances ==
    \A d \in Discussions, caller \in Principals, now \in NowValues :
        LET discussion == state.discussions[d]
            r == advance_stage(state, caller, d, now)
        IN  (discussion.stage = "Brainstorm" /\ ~discussion.is_archived
                /\ Authorized(d, caller))
            => /\ r.res = Ok("Refining")
               /\ r.st.discussions[d].stage = "Refining"
               /\ r.st.discussions[d].stage_changed_at = now

\* C5 witness: a contributor moved a discussion without any comment, whose only
\* participant is the proposer, to Refining.
C5_Witness ==
    \E d \in Discussions :
        /\ state.discussions[d].stage = "Refining"
        /\ state.discussions[d].comment_count = 0
        /\ state.discussions[d].participant_count = 1
        /\ hist[d].advanced_by # {}
        /\ state.discussions[d].proposer \notin hist[d].advanced_by

\* C6: advance_stage by a principal that is neither the proposer nor a
\* contributor of the discussion fails with the error of the missing right, in
\* every stage and at every time, and leaves the store as it is; every
\* successful advance_stage was called by the proposer or a contributor.
C6_OutsiderCannotAdvance ==
    \A d \in Discussions :
        /\ \A caller \in hist[d].advanced_by : Authorized(d, caller)
        /\ \A caller \in Principals, now \in NowValues :
                ~Authorized(d, caller) =>
                    advance_stage(state, caller, d, now) =
                        Ret(state, Err("Only the proposer or a contributor can advance the stage"))

\* C6 witness: a discussion in Refining whose gates are met: its proposer's call
\* would succeed, the call of a principal without the right fails.
C6_Witness ==
    \E d \in Discussions, caller \in Principals :
        /\ state.discussions[d].stage = "Refining"
        /\ ~Authorized(d, caller)
        /\ advance_stage(state, state.discussions[d].proposer, d, clock).res.ok
        /\ ~advance_stage(state, caller, d, clock).res.ok

\* A call that returns an error returns the store it was given
Atomic(r) == ~r.res.ok => r.st = state

\* C7: a call of any of the seven operations that returns an error returns the
\* store as it was: every table and both id counters.
C7_AllOrNothing ==
    \A caller \in Principals, now \in NowValues :
        /\ \A args \in CreateArgs :
                Atomic(create_discussion(state, caller, args, now))
        /\ \A c \in CommentIds :
                Atomic(retract_comment(state, caller, c, now))
        /\ \A d \in DiscussionIds :
            /\ Atomic(archive_discussion(state, caller, d, now))
            /\ Atomic(advance_stage(state, caller, d, now))
            /\ \A input \in CommentInputs :
                    Atomic(add_comment(state, caller,
                               [ discussion_id |-> d, content |-> input.content,
                                 author_type |-> input.author_type ], now))
            /\ \A invitee \in Principals :
                    Atomic(invite_contributor(state, caller, d, invitee, now))
            /\ \A accept \in BOOLEAN :
                    Atomic(respond_to_invite(state, caller, d, accept, now))

\* C7 witness: an archived discussion with an answered invitation, where
\* add_comment, invite_contributor, respond_to_invite, archive_discussion and
\* advance_stage all fail.
C7_Witness ==
    \E d \in Discussions, p \in Principals :
        /\ state.discussions[d].is_archived
        /\ <<d, p>> \in DOMAIN state.invites
        /\ ~respond_to_invite(state, p, d, TRUE, clock).res.ok
        /\ ~invite_contributor(state, state.discussions[d].proposer, d, p, clock).res.ok
        /\ ~archive_discussion(state, state.discussions[d].proposer, d, clock).res.ok
        /\ ~advance_stage(state, state.discussions[d].proposer, d, clock).res.ok
        /\ ~add_comment(state, p, [ discussion_id |-> d, content |-> LongContent,
                                    author_type |-> Human ], clock).res.ok

\* C8: a discussion's comment_count is the number of add_comment calls that
\* succeeded on it, Human and Agent alike; no other call changes it.
C8_CommentCount ==
    \A d \in Discussions :
        state.discussions[d].comment_count = hist[d].added

\* C8 witness: two comments were added to a discussion, an Agent comment among
\* them, and one was retracted: comment_count is 2.
C8_Witness ==
    \E d \in Discussions :
        /\ state.discussions[d].comment_count = 2
        /\ \E c \in Retracted(state) : state.comments[c].discussion_id = d
        /\ \E c \in DOMAIN state.comments :
                /\ state.comments[c].discussion_id = d
                /\ state.comments[c].author_type.kind = "Agent"

\* The comment a step adds, if it adds one
Added == IF state'.next_comment_id = state.next_comment_id + 1
         THEN { state'.comments[state.next_comment_id] }
         ELSE {}

\* C9: in no step does a discussion's participant_count decrease, and a step
\* that adds an Agent comment leaves the participant sets and the participant
\* counts as they are.
C9_ParticipantsMonotone ==
    [][ /\ \A d \in Discussions :
            /\ state'.discussions[d].participant_count
                    >= state.discussions[d].participant_count
            /\ state.discussion_participants[d] \subseteq state'.discussion_participants[d]
        /\ \A comment \in Added :
            comment.author_type.kind = "Agent" =>
                /\ state'.discussion_participants = state.discussion_participants
                /\ \A d \in Discussions :
                    state'.discussions[d].participant_count
                        = state.discussions[d].participant_count ]_vars

\* C9 witness: the only Human comment of a participant is retracted and the
\* participant is still counted; an Agent comment's author is not a participant.
C9_Witness ==
    \E d \in Discussions, c1 \in Retracted(state), c2 \in DOMAIN state.comments :
        /\ state.comments[c1].discussion_id = d
        /\ state.comments[c1].author # state.discussions[d].proposer
        /\ state.comments[c1].author \in state.discussion_participants[d]
        /\ state.discussions[d].participant_count = 2
        /\ state.comments[c2].discussion_id = d
        /\ state.comments[c2].author_type.kind = "Agent"
        /\ state.comments[c2].author \notin state.discussion_participants[d]

\* The authors of the Human comments of d, retracted or not
HumanAuthors(d) ==
    { state.comments[c].author : c \in
        { x \in DOMAIN state.comments :
            /\ state.comments[x].discussion_id = d
            /\ state.comments[x].author_type.kind = "Human" } }

\* C10: participant_count is the size of the participant set, and the set is
\* the proposer and the authors of the Human comments ever added.
C10_ParticipantSet ==
    \A d \in Discussions :
        /\ d \in DOMAIN state.discussion_participants
        /\ state.discussions[d].participant_count
                = Cardinality(state.discussion_participants[d])
        /\ state.discussion_participants[d]
                = { state.discussions[d].proposer } \cup HumanAuthors(d)

\* C10 witness: one principal added two Human comments and another an Agent
\* comment: the set is the proposer and the first, participant_count is 2.
C10_Witness ==
    \E d \in Discussions, c \in DOMAIN state.comments :
        /\ state.discussions[d].comment_count = 3
        /\ state.discussions[d].participant_count = 2
        /\ Cardinality(HumanAuthors(d)) = 1
        /\ state.discussions[d].proposer \notin HumanAuthors(d)
        /\ state.comments[c].discussion_id = d
        /\ state.comments[c].author_type.kind = "Agent"
        /\ state.comments[c].author \notin state.discussion_participants[d]

\* s is an initial segment of t
IsPrefix(s, t) == Len(s) <= Len(t) /\ SubSeq(t, 1, Len(s)) = s

\* C11: in every step, every comment stays in the comments table with its id,
\* discussion id, author, content, author type and created_at, and stays
\* retracted if it was; every discussion's list of comment ids is extended at
\* its end only.
C11_AppendOnly ==
    [][ /\ \A c \in DOMAIN state.comments :
            /\ c \in DOMAIN state'.comments
            /\ LET a == state.comments[c]
                   b == state'.comments[c]
               IN  /\ b.id = a.id
                   /\ b.discussion_id = a.discussion_id
                   /\ b.author = a.author
                   /\ b.content = a.content
                   /\ b.author_type = a.author_type
                   /\ b.created_at = a.created_at
                   /\ a.is_retracted => b.is_retracted
        /\ \A d \in DOMAIN state.discussion_comments :
            /\ d \in DOMAIN state'.discussion_comments
            /\ IsPrefix(state.discussion_comments[d], state'.discussion_comments[d])
      ]_vars

\* C11 witness: a comment was retracted and another was added after it: both
\* are in the list of the discussion, in the order of their creation, and the
\* retracted one has its content.
C11_Witness ==
    \E d \in Discussions, c \in Retracted(state) :
        /\ Len(state.discussion_comments[d]) = 2
        /\ state.discussion_comments[d][1] = c
        /\ ~state.comments[state.discussion_comments[d][2]].is_retracted
        /\ state.comments[c].content \in { ShortContent, LongContent }

\* C12: a comment is retracted exactly when retracted_at is set; retracted_at
\* is set to the time of the call that retracts the comment and never changes
\* afterwards; retract_comment on a retracted comment fails for every caller
\* at every time and leaves the store as it is.
C12_RetractOnce ==
    /\ [](\A c \in DOMAIN state.comments :
            LET comment == state.comments[c]
            IN  /\ comment.is_retracted <=> comment.retracted_at # None
                /\ comment.is_retracted =>
                    \A caller \in Principals, now \in NowValues :
                        LET r == retract_comment(state, caller, c, now)
                        IN  /\ ~r.res.ok
                            /\ r.st = state
                            /\ caller = comment.author =>
                                r.res.msg = "Comment is already retracted")
    /\ [][ \A c \in DOMAIN state.comments :
            LET a == state.comments[c]
                b == state'.comments[c]
            IN  /\ (~a.is_retracted /\ b.is_retracted) => b.retracted_at = Some(clock)
                /\ a.is_retracted => b.retracted_at = a.retracted_at ]_vars

\* C12 witness: a comment was retracted at an earlier time than the current
\* one, so that a second retraction would change retracted_at.
C12_Witness ==
    \E c \in Retracted(state) :
        /\ state.comments[c].retracted_at # None
        /\ state.comments[c].retracted_at[1] < clock

\* C13: retract_comment by a principal other than the author of the comment
\* fails with the error of the missing right, at every time, and leaves the
\* store, and so the comment, as it is.
C13_AuthorOnly ==
    [](\A c \in DOMAIN state.comments, caller \in Principals, now \in NowValues :
           caller # state.comments[c].author =>
               retract_comment(state, caller, c, now) =
                   Ret(state, Err("Only the comment author can retract this comment")))

\* C13 witness: a comment that is not retracted, on a discussion that has a
\* contributor, whose author is neither the proposer nor a contributor.
C13_Witness ==
    \E c \in DOMAIN state.comments :
        LET comment == state.comments[c]
            discussion == state.discussions[comment.discussion_id]
        IN  /\ ~comment.is_retracted
            /\ discussion.contributors # << >>
            /\ ~Authorized(comment.discussion_id, comment.author)

\* Comments with valid content: a Human one and an Agent one
ValidComments(d) ==
    { [ discussion_id |-> d, content |-> LongContent, author_type |-> Human ],
      [ discussion_id |-> d, content |-> ShortContent, author_type |-> Agent("a1") ] }

\* C14: on a discussion that is not archived, add_comment with valid content
\* succeeds for the proposer and the contributors in every stage; for any
\* other caller it succeeds exactly in Brainstorm and otherwise fails with the
\* error of the missing right and changes nothing.  So the author of a comment
\* added while the stage is Refining or Ready is the proposer or a contributor
\* at the time of the call.
C14_CommentAuthorization ==
    /\ [](\A d \in Discussions, caller \in Principals :
            ~state.discussions[d].is_archived =>
                \A args \in ValidComments(d) :
                    LET r == add_comment(state, caller, args, clock)
                    IN  /\ validate_comment(args).ok
                        /\ Authorized(d, caller) => r.res.ok
                        /\ ~Authorized(d, caller) =>
                            /\ r.res.ok <=> state.discussions[d].stage = "Brainstorm"
                            /\ ~r.res.ok => r = Ret(state, Err("You are not authorized to comment on this discussion in its current stage")))
    /\ [][ \A comment \in Added :
            state.discussions[comment.discussion_id].stage # "Brainstorm"
                => Authorized(comment.discussion_id, comment.author) ]_vars

\* C14 witness: a discussion in Ready, not archived, with a contributor and a
\* participant that is not one: the comment of the first would be added, the
\* comment of the second is refused.
C14_Witness ==
    \E d \in Discussions, p \in Principals, q \in Principals :
        /\ state.discussions[d].stage = "Ready"
        /\ ~state.discussions[d].is_archived
        /\ contains(state.discussions[d].contributors, p)
        /\ q \in state.discussion_participants[d]
        /\ ~Authorized(d, q)
        /\ \A args \in ValidComments(d) :
            /\ add_comment(state, p, args, clock).res.ok
            /\ ~add_comment(state, q, args, clock).res.ok

\* C15: an invite, once created, stays in the table with its discussion, its
\* invitee, its inviter and its time; its status changes only from Pending to
\* Accepted or Declined, and only in a step that is a respond_to_invite call
\* of the invitee; respond_to_invite on an invite that is not Pending fails
\* and changes nothing, and respond_to_invite changes no invite of another
\* principal.
C15_InviteStatus ==
    /\ [](/\ \A k \in DOMAIN state.invites, accept \in BOOLEAN, now \in NowValues :
                state.invites[k].status # "Pending" =>
                    respond_to_invite(state, k[2], k[1], accept, now) =
                        Ret(state, Err("Invitation has already been responded to"))
          /\ \A caller \in Principals, d \in DiscussionIds, accept \in BOOLEAN :
                LET r == respond_to_invite(state, caller, d, accept, clock)
                IN  \A k \in DOMAIN state.invites :
                        k # <<d, caller>> => r.st.invites[k] = state.invites[k])
    /\ [][ \A k \in DOMAIN state.invites :
            /\ k \in DOMAIN state'.invites
            /\ LET a == state.invites[k]
                   b == state'.invites[k]
               IN  /\ b.discussion_id = a.discussion_id
                   /\ b.invitee = a.invitee
                   /\ b.invited_by = a.invited_by
                   /\ b.invited_at = a.invited_at
                   /\ b.status # a.status =>
                        /\ a.status = "Pending"
                        /\ b.status \in { "Accepted", "Declined" }
                        /\ \E accept \in BOOLEAN :
                            state' = respond_to_invite(state, k[2], k[1], accept, clock).st
      ]_vars

\* C15 witness: an invite was accepted at a later time than it was sent.
C15_Witness ==
    \E k \in DOMAIN state.invites :
        /\ state.invites[k].status = "Accepted"
        /\ state.invites[k].invited_at < clock
        /\ state.invites[k].invited_by = state.discussions[k[1]].proposer

\* The principals whose invite to d is Accepted
Accepted(d) ==
    { p \in Principals :
        /\ <<d, p>> \in DOMAIN state.invites
        /\ state.invites[<<d, p>>].status = "Accepted" }

\* C16: the contributors of a discussion are the principals whose invite to it
\* is Accepted, each once in the list, and the list is extended at its end
\* only: a contributor is never removed.
C16_Contributors ==
    /\ [](\A d \in Discussions :
            LET contributors == state.discussions[d].contributors
            IN  /\ { contributors[i] : i \in DOMAIN contributors } = Accepted(d)
                /\ Len(contributors) = Cardinality(Accepted(d)))
    /\ [][ \A d \in Discussions :
            IsPrefix(state.discussions[d].contributors,
                     state'.discussions[d].contributors) ]_vars

\* C16 witness: one principal accepted its invite and is the only contributor;
\* the invite of another is Pending.
C16_Witness ==
    \E d \in Discussions, p \in Principals, q \in Principals :
        /\ state.discussions[d].contributors = << p >>
        /\ <<d, q>> \in DOMAIN state.invites
        /\ state.invites[<<d, q>>].status = "Pending"

\* C17: an invite that is Declined stays Declined; every invite_contributor
\* call for its discussion and its invitee fails, for every caller at every
\* time, and changes nothing; the invitee is not a contributor.
C17_DeclinePermanent ==
    /\ [](\A k \in DOMAIN state.invites :
            state.invites[k].status = "Declined" =>
                /\ ~contains(state.discussions[k[1]].contributors, k[2])
                /\ \A caller \in Principals, now \in NowValues :
                    LET r == invite_contributor(state, caller, k[1], k[2], now)
                    IN  ~r.res.ok /\ r.st = state)
    /\ [][ \A k \in DOMAIN state.invites :
            state.invites[k].status = "Declined" =>
                state'.invites[k].status = "Declined" ]_vars

\* C17 witness: an invite is Declined on a discussion that is not archived,
\* whose proposer can invite another principal but not the one who declined.
C17_Witness ==
    \E k \in DOMAIN state.invites, q \in Principals :
        LET proposer == state.discussions[k[1]].proposer
        IN  /\ state.invites[k].status = "Declined"
            /\ ~state.discussions[k[1]].is_archived
            /\ invite_contributor(state, proposer, k[1], q, clock).res.ok
            /\ invite_contributor(state, proposer, k[1], k[2], clock).res.msg
                    = "User already has a pending invitation"

\* The invitee cannot be invited to d: it is the proposer, a contributor, or
\* has an invite to d in any status
Blocked(d, invitee) ==
    \/ state.discussions[d].proposer = invitee
    \/ contains(state.discussions[d].contributors, invitee)
    \/ <<d, invitee>> \in DOMAIN state.invites

\* C18: invite_contributor fails and changes nothing when the invitee is the
\* proposer, a contributor, or has an invite to the discussion in any status;
\* otherwise, called by the proposer or a contributor of a discussion that is
\* not archived, it succeeds and adds one invite under (discussion, invitee),
\* Pending, with the caller as inviter, and changes nothing else.
C18_InviteOnce ==
    [](\A d \in Discussions, caller \in Principals, invitee \in Principals,
          now \in NowValues :
           LET r == invite_contributor(state, caller, d, invitee, now)
           IN  /\ Blocked(d, invitee) => (~r.res.ok /\ r.st = state)
               /\ (~Blocked(d, invitee) /\ Authorized(d, caller)
                       /\ ~state.discussions[d].is_archived)
                   => /\ r.res.ok
                      /\ r.st = [ state EXCEPT !.invites =
                                   [ k \in DOMAIN state.invites \cup { <<d, invitee>> } |->
                                       IF k = <<d, invitee>>
                                       THEN [ discussion_id |-> d,
                                              invitee |-> invitee,
                                              invited_by |-> caller,
                                              invited_at |-> now,
                                              status |-> "Pending" ]
                                       ELSE state.invites[k] ] ])

\* C18 witness: a contributor can invite a principal that has no invite, and
\* can invite neither the proposer nor itself.
C18_Witness ==
    \E d \in Discussions, p \in Principals, q \in Principals :
        /\ contains(state.discussions[d].contributors, p)
        /\ invite_contributor(state, p, d, q, clock).res.ok
        /\ ~invite_contributor(state, p, d, p, clock).res.ok
        /\ ~invite_contributor(state, p, d, state.discussions[d].proposer, clock).res.ok

\* C19: invite_contributor by a principal that is neither the proposer nor a
\* contributor fails with the error of the missing right; on an archived
\* discussion it fails, for the proposer and the contributors, with the error
\* of the archived discussion; neither call changes the store.  The inviter of
\* every invite is the proposer or a contributor of the discussion.
C19_InviteAuthorization ==
    [](/\ \A k \in DOMAIN state.invites :
               Authorized(k[1], state.invites[k].invited_by)
       /\ \A d \in Discussions, caller \in Principals, invitee \in Principals,
             now \in NowValues :
           LET r == invite_contributor(state, caller, d, invitee, now)
           IN  /\ ~Authorized(d, caller) =>
                   r = Ret(state, Err("Only the proposer or a contributor can invite others"))
               /\ (Authorized(d, caller) /\ state.discussions[d].is_archived) =>
                   r = Ret(state, Err("Cannot invite to an archived discussion")))

\* C19 witness: an archived discussion with an invite sent by its proposer: a
\* principal that has no invite can be invited neither by the proposer nor by
\* a principal without the right.
C19_Witness ==
    \E d \in Discussions, k \in DOMAIN state.invites, q \in Principals :
        /\ k[1] = d
        /\ state.discussions[d].is_archived
        /\ state.invites[k].invited_by = state.discussions[d].proposer
        /\ ~Blocked(d, q)
        /\ ~Authorized(d, k[2])
        /\ ~invite_contributor(state, state.discussions[d].proposer, d, q, clock).res.ok
        /\ ~invite_contributor(state, k[2], d, q, clock).res.ok

\* C20: archive_discussion succeeds exactly for the proposer of a discussion
\* that is not archived, and then sets is_archived only; for any other caller
\* it fails with the error of the missing right, and on an archived
\* discussion it fails for the proposer with the error of the archived flag.
\* No step removes a discussion or resets is_archived.
C20_ArchiveOnce ==
    /\ [](\A d \in Discussions, caller \in Principals, now \in NowValues :
            LET discussion == state.discussions[d]
                r == archive_discussion(state, caller, d, now)
            IN  /\ caller # discussion.proposer =>
                    r = Ret(state, Err("Only the proposer can archive this discussion"))
                /\ (caller = discussion.proposer /\ discussion.is_archived) =>
                    r = Ret(state, Err("Discussion is already archived"))
                /\ (caller = discussion.proposer /\ ~discussion.is_archived) =>
                    /\ r.res.ok
                    /\ r.st = [state EXCEPT !.discussions[d].is_archived = TRUE])
    /\ [][ \A d \in Discussions :
            /\ d \in DOMAIN state'.discussions
            /\ state.discussions[d].is_archived => state'.discussions[d].is_archived
      ]_vars

\* C20 witness: a discussion with a contributor was archived by its proposer:
\* the contributor's call and a second call of the proposer both fail.
C20_Witness ==
    \E d \in Discussions :
        /\ state.discussions[d].is_archived
        /\ state.discussions[d].contributors # << >>
        /\ ~archive_discussion(state, state.discussions[d].contributors[1], d, clock).res.ok
        /\ ~archive_discussion(state, state.discussions[d].proposer, d, clock).res.ok

\* C21: on an archived discussion, in every stage, add_comment with valid
\* content fails for every caller with the error of the archived discussion,
\* and advance_stage fails for the proposer and the contributors, at every
\* time, with the error of the archived discussion; the store stays as it is.
C21_ArchivedRejects ==
    [](\A d \in Discussions, caller \in Principals :
            state.discussions[d].is_archived =>
                /\ \A args \in ValidComments(d) :
                    add_comment(state, caller, args, clock) =
                        Ret(state, Err("Cannot comment on an archived discussion"))
                /\ Authorized(d, caller) =>
                    \A now \in NowValues :
                        advance_stage(state, caller, d, now) =
                            Ret(state, Err("Cannot advance stage of an archived discussion")))

\* C21 witness: an archived discussion in Refining that has a contributor and
\* meets the three gates: but for the archived flag, advance_stage would succeed.
C21_Witness ==
    \E d \in Discussions :
        /\ state.discussions[d].is_archived
        /\ state.discussions[d].stage = "Refining"
        /\ state.discussions[d].contributors # << >>
        /\ check_quality_gates(state, d, clock).all_met

\* The sequence of ids is strictly increasing
Increasing(ids) == \A i \in 1..Len(ids), j \in 1..Len(ids) : i < j => ids[i] < ids[j]

\* C22: the discussions are numbered 1, 2, ... and the comments, across all
\* discussions, 1, 2, ... without gaps, each record under its own id; a
\* successful create_discussion or add_comment returns the next id of its
\* counter and moves the counter by one, a failed call moves no counter, and
\* no step moves a counter back; the list of comment ids of every discussion
\* is strictly increasing.
C22_IdsInOrder ==
    /\ [](/\ DOMAIN state.discussions = 1..(state.next_discussion_id - 1)
          /\ DOMAIN state.comments = 1..(state.next_comment_id - 1)
          /\ \A d \in DOMAIN state.discussions :
                /\ state.discussions[d].id = d
                /\ Increasing(state.discussion_comments[d])
                /\ \A i \in 1..Len(state.discussion_comments[d]) :
                    state.comments[state.discussion_comments[d][i]].discussion_id = d
          /\ \A c \in DOMAIN state.comments :
                /\ state.comments[c].id = c
                /\ contains(state.discussion_comments[state.comments[c].discussion_id], c)
          /\ \A caller \in Principals, args \in CreateArgs :
                LET r == create_discussion(state, caller, args, clock)
                IN  IF r.res.ok
                    THEN /\ r.res.val = state.next_discussion_id
                         /\ r.st.next_discussion_id = state.next_discussion_id + 1
                         /\ r.st.next_comment_id = state.next_comment_id
                    ELSE /\ r.st.next_discussion_id = state.next_discussion_id
                         /\ r.st.next_comment_id = state.next_comment_id
          /\ \A caller \in Principals, d \in DiscussionIds, input \in CommentInputs :
                LET r == add_comment(state, caller,
                            [ discussion_id |-> d, content |-> input.content,
                              author_type |-> input.author_type ], clock)
                IN  IF r.res.ok
                    THEN /\ r.res.val = state.next_comment_id
                         /\ r.st.next_comment_id = state.next_comment_id + 1
                         /\ r.st.next_discussion_id = state.next_discussion_id
                    ELSE /\ r.st.next_comment_id = state.next_comment_id
                         /\ r.st.next_discussion_id = state.next_discussion_id)
    /\ [][ /\ state'.next_discussion_id \in
                { state.next_discussion_id, state.next_discussion_id + 1 }
           /\ state'.next_comment_id \in
                { state.next_comment_id, state.next_comment_id + 1 }
           /\ state'.next_discussion_id = state.next_discussion_id + 1 =>
                /\ state'.next_comment_id = state.next_comment_id
                /\ state.next_discussion_id \in DOMAIN state'.discussions
           /\ state'.next_comment_id = state.next_comment_id + 1 =>
                /\ state'.next_discussion_id = state.next_discussion_id
                /\ state.next_comment_id \in DOMAIN state'.comments ]_vars

\* C22 witness: two discussions and two comments: the first comment is on the
\* second discussion and the second comment on the first.
C22_Witness ==
    /\ state.next_discussion_id = 3
    /\ state.next_comment_id = 3
    /\ state.comments[1].discussion_id = 2
    /\ state.comments[2].discussion_id = 1

\* C23: after a successful create_discussion by a caller at a time,
\* get_discussion of the returned id gives the caller as proposer, the
\* arguments, stage Brainstorm, participant_count 1, comment_count 0, no
\* contributors, is_archived false and both times equal to the time of the
\* call; the participant set is the caller alone and the comment list empty.
\* The discussion a step creates is such a record, with the time of the step.
C23_CreatedDiscussion ==
    /\ [](\A caller \in Principals, args \in CreateArgs, now \in NowValues :
            LET r == create_discussion(state, caller, args, now)
            IN  r.res.ok =>
                /\ get_discussion(r.st, r.res.val) =
                        Some([ id |-> r.res.val,
                               title |-> args.title,
                               description |-> args.description,
                               category |-> args.category,
                               proposer |-> caller,
                               contributors |-> << >>,
                               stage |-> "Brainstorm",
                               created_at |-> now,
                               stage_changed_at |-> now,
                               comment_count |-> 0,
                               participant_count |-> 1,
                               is_archived |-> FALSE ])
                /\ r.st.discussion_participants[r.res.val] = { caller }
                /\ r.st.discussion_comments[r.res.val] = << >>)
    /\ [][ state'.next_discussion_id # state.next_discussion_id =>
            LET discussion == get_discussion(state', state.next_discussion_id)[1]
            IN  /\ discussion.stage = "Brainstorm"
                /\ discussion.created_at = clock
                /\ discussion.stage_changed_at = clock
                /\ discussion.participant_count = 1
                /\ discussion.comment_count = 0
                /\ discussion.contributors = << >>
                /\ ~discussion.is_archived
                /\ state'.discussion_participants[discussion.id] = { discussion.proposer }
                /\ state'.discussion_comments[discussion.id] = << >> ]_vars

\* C23 witness: a second discussion was created by another principal at a
\* later time than the first, which has a comment.
C23_Witness ==
    \E d \in Discussions, e \in Discussions :
        /\ state.discussions[d].comment_count > 0
        /\ state.discussions[e].created_at > state.discussions[d].created_at
        /\ state.discussions[e].proposer # state.discussions[d].proposer
        /\ state.discussions[e].created_at = clock
        /\ get_discussion(state, e)[1].participant_count = 1

\* ------------------------------------------------------------------------
\* PathSpec: the documented path to Ready.  The proposer p1 creates the
\* discussion at time 0; p1, p2 and p3 post human comments of 50 chars at
\* time 0; the proposer calls advance_stage at any time; time passes.
\* ------------------------------------------------------------------------
PathNext ==
    \/ /\ state.next_discussion_id = new.next_discussion_id
       /\ clock = 0
       /\ CreateDiscussion(GateProposer, GateArgs)
    \/ \E caller \in Principals, d \in DiscussionIds :
            /\ clock = 0
            /\ state.next_comment_id <= GateMaxComments
            /\ AddComment(caller, [ discussion_id |-> d, content |-> LongContent,
                                    author_type |-> Human ])
    \/ \E d \in DiscussionIds :
            AdvanceStage(GateProposer, d)
    \/ /\ Tick
       /\ clock < GateMaxTicks * TickStep

PathSpec == Init /\ [][PathNext]_vars

\* The times of a call made less than 48 hours after a call at now, and of a
\* call made 48 hours after it or later
Sooner(now) == { now, now + TickStep, now + MIN_REFINING_DURATION_NS - 1 }
Later(now) == { now + MIN_REFINING_DURATION_NS, now + MIN_REFINING_DURATION_NS + TickStep }

\* C24: on a discussion in Brainstorm on which three distinct callers posted
\* human comments, five of them of at least 50 chars, advance_stage by the
\* proposer returns Refining; a second advance_stage, at once or less than 48
\* hours later, fails with the quality gate error that lists the time in
\* Refining alone, and changes nothing; an advance_stage 48 hours after the
\* first or later returns Ready.
C24_PathToReady ==
    [](\A d \in Discussions, now \in NowValues :
        LET proposer == state.discussions[d].proposer
            r1 == advance_stage(state, proposer, d, now)
        IN  (/\ state.discussions[d].stage = "Brainstorm"
             /\ ~state.discussions[d].is_archived
             /\ Cardinality(HumanAuthors(d)) >= 3
             /\ Cardinality(SubstantiveOf(d)) >= 5)
            => /\ r1.res = Ok("Refining")
               /\ r1.st.discussions[d].stage_changed_at = now
               /\ \A t \in Sooner(now) :
                    LET r2 == advance_stage(r1.st, proposer, d, t)
                    IN  /\ r2.res = ErrGates(<< Unmet("time in Refining",
                                                     (t - now) \div NS_PER_HOUR, 48) >>)
                        /\ r2.st = r1.st
               /\ \A t \in Later(now) :
                    LET r3 == advance_stage(r1.st, proposer, d, t)
                    IN  /\ r3.res = Ok("Ready")
                        /\ r3.st.discussions[d].stage = "Ready")

\* C24 witness: the path was taken: five comments of three distinct authors,
\* both stage changes made by the proposer, the second 48 hours after the
\* first, which was made later than the creation.
C24_Witness ==
    \E d \in Discussions :
        /\ state.discussions[d].stage = "Ready"
        /\ Cardinality(HumanAuthors(d)) = 3
        /\ state.discussions[d].comment_count = 5
        /\ hist[d].advanced_by = { state.discussions[d].proposer }
        /\ hist[d].refining_at[1] > state.discussions[d].created_at
        /\ hist[d].ready_at[1] = hist[d].refining_at[1] + MIN_REFINING_DURATION_NS

\* ------------------------------------------------------------------------
\* The verification hash: discussions and comments whose strings are given
\* byte by byte, so that the hasher's input can be computed
\* ------------------------------------------------------------------------
HashMaxComments == 2
HashMaxTicks == 1

HashTitles == { Text(<< 97 >>), Text(<< 97, 98 >>) }
HashDescriptions == { Text(<< 99 >>), Text(<< 98, 99 >>) }
HashArgs == [ title : HashTitles, description : HashDescriptions,
              category : { "Operational" } ]
HashContents == { Text(<< 120 >>), Text(<< 120, 121 >>) }
HashCommenters == { "p1", "p2" }

HashNext ==
    \/ /\ state.next_discussion_id = new.next_discussion_id
       /\ clock = 0
       /\ \E args \in HashArgs : CreateDiscussion(GateProposer, args)
    \/ /\ state.next_comment_id <= HashMaxComments
       /\ \E caller \in HashCommenters, d \in DiscussionIds, content \in HashContents :
            AddComment(caller, [ discussion_id |-> d, content |-> content,
                                 author_type |-> Human ])
    \/ \E caller \in HashCommenters, c \in CommentIds : RetractComment(caller, c)
    \/ /\ clock < HashMaxTicks * TickStep
       /\ Tick

HashSpec == Init /\ [][HashNext]_vars

\* C25: get_discussion_hash is deterministic and tracks the ledger.  Whatever
\* the caller, the content and the author kind, a call of add_comment or
\* retract_comment on a discussion that succeeds gives the discussion a hash
\* different from the one it had just before, and a call that fails leaves the
\* hash as it was; in every step of the system the hash of a discussion
\* changes exactly when a comment was added to it or one of its comments was
\* retracted, so two reads with no such operation in between agree.
C25_HashTracksLedger ==
    /\ [](\A d \in DOMAIN state.discussions :
            LET before == get_discussion_hash(state, d)
            IN  /\ before # None
                /\ \A caller \in Principals, content \in HashContents,
                      author_type \in AuthorTypes :
                        LET r == add_comment(state, caller,
                                     [ discussion_id |-> d, content |-> content,
                                       author_type |-> author_type ], clock)
                        IN  IF r.res.ok
                            THEN get_discussion_hash(r.st, d) # before
                            ELSE get_discussion_hash(r.st, d) = before
                /\ \A caller \in Principals, c \in DOMAIN state.comments :
                        state.comments[c].discussion_id = d =>
                        LET r == retract_comment(state, caller, c, clock)
                        IN  IF r.res.ok
                            THEN get_discussion_hash(r.st, d) # before
                            ELSE get_discussion_hash(r.st, d) = before)
    /\ [][\A d \in DOMAIN state.discussions :
            LET added == Len(state'.discussion_comments[d])
                             > Len(state.discussion_comments[d])
                retracted == \E c \in DOMAIN state.comments :
                                /\ state.comments[c].discussion_id = d
                                /\ ~state.comments[c].is_retracted
                                /\ state'.comments[c].is_retracted
            IN  (added \/ retracted)
                    <=> get_discussion_hash(state', d) # get_discussion_hash(state, d)]_vars

\* A discussion with two comments, the first of them retracted: its hash was
\* read before and after an add_comment and before and after a retract_comment.
C25_Witness ==
    \E d \in DOMAIN state.discussions :
        /\ Len(state.discussion_comments[d]) = 2
        /\ state.comments[state.discussion_comments[d][1]].is_retracted
        /\ ~state.comments[state.discussion_comments[d][2]].is_retracted
        /\ get_discussion_hash(state, d) # None
        /\ Len(get_discussion_hash(state, d)[1].sha256_of)
               > Len(hasher_input(state.discussions[d], << >>))

\* The fields of its input that generate_discussion_hash covers
Covered(discussion, comments) ==
    << discussion.id, discussion.title, discussion.description,
       discussion.category, discussion.proposer,
       [ i \in 1..Len(comments) |->
           << comments[i].id, comments[i].author, comments[i].content,
              comments[i].created_at, comments[i].is_retracted >> ] >>

\* Inputs that differ from a given one in covered fields of the discussion
DiscussionVariants(discussion) ==
    { [ discussion EXCEPT !.id = id, !.title = title, !.description = description,
                          !.category = category, !.proposer = proposer ] :
        id \in { discussion.id, discussion.id + 1 },
        title \in HashTitles, description \in HashDescriptions,
        category \in { "Operational", "Treasury" },
        proposer \in HashCommenters }

\* ... in covered fields of one comment
CommentVariants(comment) ==
    { [ comment EXCEPT !.id = id, !.author = author, !.content = content,
                       !.created_at = created_at, !.is_retracted = is_retracted ] :
        id \in { comment.id, comment.id + 1 },
        author \in HashCommenters, content \in HashContents,
        created_at \in { comment.created_at, comment.created_at + TickStep },
        is_retracted \in BOOLEAN }

\* ... and in the number or the order of the comments, or in one comment
CommentsVariants(comments) ==
    { comments }
    \cup { SubSeq(comments, 1, n) : n \in 0..Len(comments) }
    \cup { [ i \in 1..Len(comments) |-> comments[Len(comments) + 1 - i] ] }
    \cup UNION { { [ comments EXCEPT ![i] = v ] : v \in CommentVariants(comments[i]) } :
                   i \in 1..Len(comments) }

\* C26: generate_discussion_hash distinguishes every change to a covered
\* field: an input that differs from a stored discussion and its comments in
\* the discussion's id, title, description, category or proposer, in the number
\* or order of the comments, or in a comment's id, author, content, creation
\* time or retraction flag, feeds a different byte stream to the digest.
C26_HashDistinguishes ==
    \A d \in DOMAIN state.discussions :
        LET discussion == state.discussions[d]
            comments == get_all_discussion_comments(state, d)
        IN  \A other \in DiscussionVariants(discussion),
               others \in CommentsVariants(comments) :
                Covered(other, others) # Covered(discussion, comments)
                    => hasher_input(other, others) # hasher_input(discussion, comments)

\* C27: get_quality_gate_status(d, now) is a read-only probe.  It returns
\* nothing exactly when d does not exist; otherwise participants_met says that
\* the participant count is at least 3, comments_met that there are at least 5
\* substantive comments, duration_met that now - stage_changed_at is at least
\* 48 hours in Refining, true in Ready and false in Brainstorm, and all_met is
\* the conjunction of the three.  The probe returns a value and no store.
C27_GateStatusProbe ==
    [](\A d \in DiscussionIds, now \in NowValues :
        LET probe == get_quality_gate_status(state, d, now)
        IN  /\ probe = None <=> d \notin Discussions
            /\ d \in Discussions =>
                LET status == probe[1]
                    discussion == state.discussions[d]
                IN  /\ status.participants_met
                           <=> discussion.participant_count >= 3
                    /\ status.comments_met
                           <=> Cardinality(SubstantiveOf(d)) >= 5
                    /\ status.duration_met
                           <=> \/ /\ discussion.stage = "Refining"
                                  /\ now - discussion.stage_changed_at >= 48 * NS_PER_HOUR
                               \/ discussion.stage = "Ready"
                    /\ discussion.stage = "Brainstorm" => ~status.duration_met
                    /\ status.all_met
                           <=> /\ status.participants_met
                               /\ status.comments_met
                               /\ status.duration_met)

\* A Ready discussion whose probe reports every gate met, while the probe of
\* an id that was never given out returns nothing.
C27_Witness ==
    \E d \in Discussions :
        /\ state.discussions[d].stage = "Ready"
        /\ get_quality_gate_status(state, d, clock)[1].all_met
        /\ get_quality_gate_status(state, d, 0)[1].duration_met
        /\ get_quality_gate_status(state, state.next_discussion_id, clock) = None

\* ------------------------------------------------------------------------
\* The ledger of one discussion: comments of each kind are added to it and
\* retracted by their author
\* ------------------------------------------------------------------------
LedgerAuthor == "p2"
LedgerInputs ==
    { [ content |-> LongContent, author_type |-> Human ],
      [ content |-> LongContent, author_type |-> Agent("a1") ],
      [ content |-> ShortContent, author_type |-> Human ] }

LedgerNext ==
    \/ /\ state.next_discussion_id = new.next_discussion_id
       /\ CreateDiscussion(GateProposer, GateArgs)
    \/ \E d \in DiscussionIds, input \in LedgerInputs :
            /\ state.next_comment_id <= GateMaxComments
            /\ AddComment(LedgerAuthor, [ discussion_id |-> d, content |-> input.content,
                                          author_type |-> input.author_type ])
    \/ \E c \in CommentIds : RetractComment(LedgerAuthor, c)

LedgerSpec == Init /\ [][LedgerNext]_vars

\* C28: the substantive-comment count of a discussion is the number of its
\* comments that are not retracted, are of kind Human and have at least 50
\* characters.  A successful add_comment of an Agent comment or of a shorter
\* comment leaves it unchanged (a Human comment of 50 characters raises it by
\* one), and a successful retract_comment of a substantive comment lowers it
\* by exactly one, so the count can decrease and the comments gate can go
\* from met to unmet.
C28_SubstantiveCount ==
    /\ [](\A d \in Discussions :
            LET n == count_substantive_comments(state, d)
            IN  /\ n = Cardinality(SubstantiveOf(d))
                /\ \A caller \in Principals, content \in { ShortContent, LongContent },
                      author_type \in AuthorTypes :
                        LET r == add_comment(state, caller,
                                     [ discussion_id |-> d, content |-> content,
                                       author_type |-> author_type ], clock)
                        IN  r.res.ok =>
                                count_substantive_comments(r.st, d) =
                                    IF author_type = Human /\ content.chars >= 50
                                    THEN n + 1 ELSE n
                /\ \A caller \in Principals, c \in DOMAIN state.comments :
                        LET r == retract_comment(state, caller, c, clock)
                        IN  (state.comments[c].discussion_id = d /\ r.res.ok) =>
                                /\ count_substantive_comments(r.st, d) =
                                       IF c \in SubstantiveOf(d) THEN n - 1 ELSE n
                                /\ (c \in SubstantiveOf(d) /\ n = 5) =>
                                       /\ check_quality_gates(state, d, clock).comments_met
                                       /\ ~check_quality_gates(r.st, d, clock).comments_met)
    /\ [][\A d \in Discussions, c \in DOMAIN state.comments :
            (c \in SubstantiveOf(d) /\ state'.comments[c].is_retracted)
                => count_substantive_comments(state', d)
                       = count_substantive_comments(state, d) - 1]_vars

\* Five substantive comments were added to a discussion and one of them was
\* retracted: four are left and the comments gate, met before the retraction,
\* is unmet; an Agent comment and a comment of 49 characters are accepted and
\* leave the count at four.
C28_Witness ==
    \E d \in Discussions :
        /\ state.discussions[d].comment_count = MIN_SUBSTANTIVE_COMMENTS
        /\ \E c \in Retracted(state) :
                /\ state.comments[c].discussion_id = d
                /\ chars_count(state.comments[c].content) >= SUBSTANTIVE_COMMENT_MIN_CHARS
                /\ state.comments[c].author_type = Human
        /\ count_substantive_comments(state, d) = MIN_SUBSTANTIVE_COMMENTS - 1
        /\ ~get_quality_gate_status(state, d, clock)[1].comments_met
        /\ \A args \in { [ discussion_id |-> d, content |-> LongContent,
                           author_type |-> Agent("a1") ],
                         [ discussion_id |-> d, content |-> ShortContent,
                           author_type |-> Human ] } :
                LET r == add_comment(state, LedgerAuthor, args, clock)
                IN  /\ r.res.ok
                    /\ count_substantive_comments(r.st, d) = MIN_SUBSTANTIVE_COMMENTS - 1

\* Offsets and limits: within a list, at its end, past its end, and past 2^32
PageValues == { U64(0, 0), U64(0, 1), U64(0, 2), U64(0, GateMaxComments),
                U64(0, GateMaxComments + 1), U64(1, 0), U64(1, 1) }

\* The comments at positions offset .. offset + limit - 1 (counted from 0) of
\* the insertion-ordered list of d, as the comments table holds them
Page(d, offset, limit) ==
    LET ids == state.discussion_comments[d]
        at == { i \in 1..Len(ids) :
                  /\ offset.hi = 0
                  /\ i - 1 >= offset.lo
                  /\ limit.hi > 0 \/ i - 1 < offset.lo + limit.lo }
    IN  [ k \in 1..Cardinality(at) |-> state.comments[ids[offset.lo + k]] ]

\* C29: get_comments(d, offset, limit) returns the comments at positions
\* offset .. offset + limit - 1 of d's insertion-ordered list (fewer if the list
\* is shorter), retracted comments included as they are stored, and the empty
\* list when d does not exist or offset is past the end.
C29_CommentsPage ==
    \A d \in DiscussionIds, offset \in PageValues, limit \in PageValues :
        get_comments(state, d, offset, limit) =
            IF d \in Discussions THEN Page(d, offset, limit) ELSE << >>

\* ------------------------------------------------------------------------
\* Listing: discussions of two proposers and two categories are created,
\* advanced and archived
\* ------------------------------------------------------------------------
ListMaxDiscussions == 2

ListProposers == { "p1", "p2" }
ListCategories == { "Operational", "Treasury" }
ListArgs == [ title : { ValidTitle }, description : { ValidDescription },
              category : ListCategories ]

ListNext ==
    \/ /\ state.next_discussion_id <= ListMaxDiscussions
       /\ \E caller \in ListProposers, args \in ListArgs : CreateDiscussion(caller, args)
    \/ \E caller \in ListProposers, d \in DiscussionIds : AdvanceStage(caller, d)
    \/ \E caller \in ListProposers, d \in DiscussionIds : ArchiveDiscussion(caller, d)

ListSpec == Init /\ [][ListNext]_vars

\* Option<T> over the values of a set
Optional(S) == { None } \cup { Some(x) : x \in S }
\* Option<DiscussionFilter>
Filters ==
    Optional([ stage : Optional({ "Brainstorm", "Refining", "Ready" }),
               category : Optional(ListCategories),
               proposer : Optional(Principals),
               include_archived : Optional(BOOLEAN) ])

\* The discussions that meet every criterion the filter supplies, archived
\* ones only if the filter asks for them
Matching(filter) ==
    { d \in Discussions :
        LET discussion == state.discussions[d]
        IN  /\ filter # None =>
                /\ filter[1].stage # None => discussion.stage = filter[1].stage[1]
                /\ filter[1].category # None => discussion.category = filter[1].category[1]
                /\ filter[1].proposer # None => discussion.proposer = filter[1].proposer[1]
            /\ discussion.is_archived =>
                (filter # None /\ filter[1].include_archived = Some(TRUE)) }

Upgrade ==
    /\ state' = DiscussionState_from(StableDiscussionState_from(state))
    /\ UNCHANGED << clock, hist >>

UpgradeNext ==
    \/ Next
    \/ Upgrade

UpgradeSpec == Init /\ [][UpgradeNext]_vars

\* C31: the snapshot round trip.  In every reachable state, saving the store
\* as a StableDiscussionState and restoring it gives back the same
\* discussions, comments, order of each discussion's comments, invites,
\* participant sets, user index and id counters; the probes answer the same
\* after the restore, and the next create_discussion and add_comment get ids
\* above every id given out before.
C31_SnapshotRoundTrip ==
    [](LET restored == DiscussionState_from(StableDiscussionState_from(state))
       IN  /\ restored.discussions = state.discussions
           /\ restored.comments = state.comments
           /\ restored.discussion_comments = state.discussion_comments
           /\ restored.invites = state.invites
           /\ restored.discussion_participants = state.discussion_participants
           /\ restored.user_discussions = state.user_discussions
           /\ restored.next_discussion_id = state.next_discussion_id
           /\ restored.next_comment_id = state.next_comment_id
           /\ \A d \in DiscussionIds :
                /\ get_discussion(restored, d) = get_discussion(state, d)
                /\ get_comments(restored, d, U64(0, 0), U64(0, MaxCalls))
                       = get_comments(state, d, U64(0, 0), U64(0, MaxCalls))
                /\ get_quality_gate_status(restored, d, clock)
                       = get_quality_gate_status(state, d, clock)
           /\ LET r == create_discussion(restored, GateProposer, GateArgs, clock)
              IN  /\ r.res.ok
                  /\ \A d \in Discussions : r.res.val > d
           /\ \A d \in Discussions :
                LET r == add_comment(restored, state.discussions[d].proposer,
                             [ discussion_id |-> d, content |-> LongContent,
                               author_type |-> Human ], clock)
                IN  r.res.ok => \A c \in DOMAIN state.comments : r.res.val > c)

\* A store with two discussions of two proposers, a comment by a second
\* participant and an invite, which is what its snapshot restores to.
C31_Witness ==
    /\ Cardinality(Discussions) = 2
    /\ Cardinality(DOMAIN state.user_discussions) = 2
    /\ DOMAIN state.comments # {}
    /\ DOMAIN state.invites # {}
    /\ Len(StableDiscussionState_from(state).discussions) = 2
    /\ Len(StableDiscussionState_from(state).invites) = 1
    /\ DiscussionState_from(StableDiscussionState_from(state)) = state

\* The messages of the validators
ValidationErrors ==
    { "Title cannot be empty", "Title too long", "Description cannot be empty",
      "Description too long", "Comment content cannot be empty", "Comment too long" }

\* C32: create_discussion with an empty title, a title of more than 200 bytes,
\* an empty description or a description of more than 50KB, and add_comment
\* with empty content or content of more than 10KB, fail with a validation
\* error whoever calls them; the store is left as it was, and the next
\* successful call gets the id that the counter showed before the failed call.
C32_ValidationConsumesNoId ==
    [](/\ \A caller \in Principals, args \in CreateArgs :
            (\/ args.title.bytes = 0 \/ args.title.bytes > 200
             \/ args.description.bytes = 0 \/ args.description.bytes > 50 * 1024)
            => LET r == create_discussion(state, caller, args, clock)
                   next == create_discussion(r.st, caller, GateArgs, clock)
               IN  /\ ~r.res.ok
                   /\ r.res.msg \in ValidationErrors
                   /\ r.st = state
                   /\ next.res.ok
                   /\ next.res.val = state.next_discussion_id
                   /\ DOMAIN next.st.discussions
                          = Discussions \cup { state.next_discussion_id }
       /\ \A caller \in Principals, d \in Discussions, author_type \in AuthorTypes,
             content \in Contents :
            (content.bytes = 0 \/ content.bytes > 10 * 1024)
            => LET r == add_comment(state, caller,
                            [ discussion_id |-> d, content |-> content,
                              author_type |-> author_type ], clock)
                   next == add_comment(r.st, caller,
                               [ discussion_id |-> d, content |-> LongContent,
                                 author_type |-> author_type ], clock)
               IN  /\ ~r.res.ok
                   /\ r.res.msg \in ValidationErrors
                   /\ r.st = state
                   /\ next.res.ok => /\ next.res.val = state.next_comment_id
                                     /\ DOMAIN next.st.comments
                                            = DOMAIN state.comments
                                                \cup { state.next_comment_id })

\* Two discussions and a comment exist, with ids 1, 2 and 1: discussion 1 is
\* open to a comment by p2, whose empty comment is refused and whose next
\* comment gets id 2, and a third discussion gets id 3 after a refused one.
C32_Witness ==
    /\ Discussions = { 1, 2 }
    /\ DOMAIN state.comments = { 1 }
    /\ ~create_discussion(state, "p1",
            [ GateArgs EXCEPT !.title = Str(0, 0) ], clock).res.ok
    /\ ~add_comment(state, "p2", [ discussion_id |-> 1, content |-> Str(0, 0),
                                   author_type |-> Human ], clock).res.ok
    /\ add_comment(state, "p2", [ discussion_id |-> 1, content |-> LongContent,
                                  author_type |-> Human ], clock).res.val = 2
    /\ create_discussion(state, "p1", GateArgs, clock).res.val = 3

\* The kind of error a result carries ("none" for a success)
ErrorKind(res) ==
    IF res.ok THEN "none"
    ELSE IF res.msg \in ValidationErrors THEN "ValidationError"
    ELSE IF res.msg = "Discussion not found" THEN "NotFound"
    ELSE IF res.msg = "Cannot comment on an archived discussion" THEN "InvalidState"
    ELSE IF res.msg = "You are not authorized to comment on this discussion in its current stage"
    THEN "Unauthorized"
    ELSE "other"

\* The failure conditions of add_comment that hold for a call
Failing(d, caller, content) ==
    { kind \in { "NotFound", "InvalidState", "Unauthorized", "ValidationError" } :
        \/ kind = "NotFound" /\ d \notin Discussions
        \/ /\ kind = "InvalidState"
           /\ d \in Discussions
           /\ state.discussions[d].is_archived
        \/ /\ kind = "Unauthorized"
           /\ d \in Discussions
           /\ ~Authorized(d, caller)
           /\ state.discussions[d].stage # "Brainstorm"
        \/ /\ kind = "ValidationError"
           /\ content.bytes = 0 \/ content.bytes > 10 * 1024 }

\* The first kind of a list that is among the failing ones
Earliest(order, failing) ==
    IF \A i \in 1..Len(order) : order[i] \notin failing THEN "none"
    ELSE order[CHOOSE i \in 1..Len(order) :
                   /\ order[i] \in failing
                   /\ \A j \in 1..(i - 1) : order[j] \notin failing]

\* add_comment reports the earliest failure of the given order, for every
\* discussion id, caller and content
ReportsInOrder(order) ==
    \A d \in DiscussionIds, caller \in Principals, content \in Contents :
        ErrorKind(add_comment(state, caller,
                      [ discussion_id |-> d, content |-> content,
                        author_type |-> Human ], clock).res)
            = Earliest(order, Failing(d, caller, content))

\* C33 as stated: add_comment reports its failures in the order NotFound,
\* InvalidState, Unauthorized, ValidationError, so that empty or oversized
\* content on an absent or archived discussion fails as NotFound or
\* InvalidState.
C33_OrderAsListed ==
    ReportsInOrder(<< "NotFound", "InvalidState", "Unauthorized", "ValidationError" >>)

\* C33, amended: add_comment validates the content before it looks at the
\* store.  Its failures are reported in the order ValidationError, NotFound,
\* InvalidState, Unauthorized; empty or oversized content fails as
\* ValidationError on an absent and on an archived discussion too.
C33_ValidationFirst ==
    [](ReportsInOrder(<< "ValidationError", "NotFound", "InvalidState", "Unauthorized" >>))

\* An archived discussion in Refining and a caller who is neither its
\* proposer nor a contributor: an empty comment on it meets three failure
\* conditions and is refused for its content, as it is on an id never given out.
C33_Witness ==
    \E d \in Discussions, caller \in Principals :
        /\ Failing(d, caller, Str(0, 0))
               = { "InvalidState", "Unauthorized", "ValidationError" }
        /\ ErrorKind(add_comment(state, caller,
                         [ discussion_id |-> d, content |-> Str(0, 0),
                           author_type |-> Human ], clock).res) = "ValidationError"
        /\ ErrorKind(add_comment(state, caller,
                         [ discussion_id |-> d, content |-> LongContent,
                           author_type |-> Human ], clock).res) = "InvalidState"
        /\ ErrorKind(add_comment(state, caller,
                         [ discussion_id |-> state.next_discussion_id,
                           content |-> Str(0, 0),
                           author_type |-> Human ], clock).res) = "ValidationError"

\* C34: Ready is never revoked.  retract_comment by the author of a comment
\* that is not yet retracted succeeds in every stage and leaves the stage as
\* it is; when it takes a Ready discussion below 5 substantive comments the
\* discussion still is Ready while the probe reports comments_met and all_met
\* false.  No step takes a discussion out of Ready, and every Ready
\* discussion has a participant_count of at least 3.
C34_ReadyNotRevoked ==
    /\ [](\A d \in Discussions :
            LET discussion == state.discussions[d]
            IN  /\ discussion.stage = "Ready" =>
                    /\ discussion.participant_count >= 3
                    /\ get_quality_gate_status(state, d, clock)[1].participants_met
                /\ \A c \in DOMAIN state.comments :
                    (state.comments[c].discussion_id = d /\ ~state.comments[c].is_retracted)
                    => LET r == retract_comment(state, state.comments[c].author, c, clock)
                           probe == get_quality_gate_status(r.st, d, clock)[1]
                       IN  /\ r.res.ok
                           /\ r.st.discussions[d].stage = discussion.stage
                           /\ (/\ discussion.stage = "Ready"
                               /\ c \in SubstantiveOf(d)
                               /\ Cardinality(SubstantiveOf(d)) = 5)
                              => /\ ~probe.comments_met
                                 /\ ~probe.all_met
                                 /\ probe.substantive_comments = 4)
    /\ [][\A d \in Discussions :
            state.discussions[d].stage = "Ready"
                => state'.discussions[d].stage = "Ready"]_vars

\* A discussion became Ready with 5 substantive comments and one of them was
\* retracted afterwards: it is Ready with 4, and the probe reports the
\* comments gate and all_met as unmet.
C34_Witness ==
    \E d \in Discussions :
        /\ state.discussions[d].stage = "Ready"
        /\ Cardinality(SubstantiveOf(d)) = 4
        /\ \E c \in Retracted(state) :
                /\ state.comments[c].discussion_id = d
                /\ state.comments[c].retracted_at[1] > hist[d].ready_at[1]
        /\ ~get_quality_gate_status(state, d, clock)[1].comments_met
        /\ ~get_quality_gate_status(state, d, clock)[1].all_met
        /\ get_quality_gate_status(state, d, clock)[1].participants_met
        /\ get_quality_gate_status(state, d, clock)[1].duration_met

\* ------------------------------------------------------------------------
\* Frames: every operation on discussions whose strings are given byte by
\* byte, so that the verification hash can be followed through the calls
\* ------------------------------------------------------------------------
FrameArgs == [ title |-> Text(<< 97 >>), description |-> Text(<< 99 >>),
               category |-> "Operational" ]
FrameContent == Text(<< 120, 121 >>)
FrameCallers == { "p1", "p2" }

FrameNext ==
    \/ /\ Within(MaxCalls)
       /\ \E caller \in Proposers : CreateDiscussion(caller, FrameArgs)
    \/ /\ Within(MaxCalls)
       /\ \E caller \in FrameCallers, d \in DiscussionIds :
            ArchiveDiscussion(caller, d)
    \/ /\ Within(MaxCalls)
       /\ \E caller \in FrameCallers, d \in DiscussionIds, author_type \in AuthorTypes :
            AddComment(caller, [ discussion_id |-> d, content |-> FrameContent,
                                 author_type |-> author_type ])
    \/ /\ Within(MaxCalls)
       /\ \E caller \in FrameCallers, c \in CommentIds :
            RetractComment(caller, c)
    \/ /\ Within(MaxCalls)
       /\ \E caller \in FrameCallers, d \in DiscussionIds :
            AdvanceStage(caller, d)
    \/ /\ Within(MaxCalls)
       /\ \E caller \in FrameCallers, d \in DiscussionIds, invitee \in FrameCallers :
            InviteContributor(caller, d, invitee)
    \/ /\ Within(MaxCalls)
       /\ \E caller \in FrameCallers, d \in DiscussionIds, accept \in BOOLEAN :
            RespondToInvite(caller, d, accept)
    \/ /\ Within(MaxCalls)
       /\ Tick

FrameSpec == Init /\ [][FrameNext]_vars

\* The discussion a call is addressed to: the one it names, the one its
\* comment belongs to, or the one create_discussion is about to make
TargetOf(c) ==
    IF c \in DOMAIN state.comments THEN state.comments[c].discussion_id ELSE 0

\* Every call that can be made in the current state, by every caller with
\* every argument, valid or not: op is the operation, d the discussion the
\* call is addressed to and r what it returns
EveryCall ==
    LET Made(op, d, r) == [ op |-> op, d |-> d, r |-> r ]
    IN  UNION {
          { Made("create_discussion", state.next_discussion_id,
                 create_discussion(state, caller, FrameArgs, clock)) :
                caller \in Principals },
          { Made("archive_discussion", d, archive_discussion(state, caller, d, clock)) :
                caller \in Principals, d \in DiscussionIds },
          { Made("advance_stage", d, advance_stage(state, caller, d, clock)) :
                caller \in Principals, d \in DiscussionIds },
          UNION { { Made("add_comment", d,
                         add_comment(state, caller,
                             [ discussion_id |-> d, content |-> content,
                               author_type |-> author_type ], clock)) :
                        caller \in Principals, d \in DiscussionIds } :
                    author_type \in AuthorTypes, content \in { FrameContent, Text(<< >>) } },
          { Made("invite_contributor", d,
                 invite_contributor(state, caller, d, invitee, clock)) :
                caller \in Principals, d \in DiscussionIds, invitee \in Principals },
          { Made("respond_to_invite", d,
                 respond_to_invite(state, caller, d, accept, clock)) :
                caller \in Principals, d \in DiscussionIds, accept \in BOOLEAN },
          { Made("retract_comment", TargetOf(c), retract_comment(state, caller, c, clock)) :
                caller \in Principals, c \in CommentIds } }

\* The invite keys of a discussion
InviteKeys(st, d) == { k \in DOMAIN st.invites : k[1] = d }

\* What archival freezes of a discussion
Frozen(st, d) ==
    [ is_archived |-> st.discussions[d].is_archived,
      stage |-> st.discussions[d].stage,
      stage_changed_at |-> st.discussions[d].stage_changed_at,
      comment_count |-> st.discussions[d].comment_count,
      participant_count |-> st.discussions[d].participant_count,
      participants |-> st.discussion_participants[d],
      comment_list |-> st.discussion_comments[d],
      invite_keys |-> InviteKeys(st, d) ]

\* C35: archival freezes only part of a discussion.  Once is_archived is true
\* no call, by any caller with any argument, changes the discussion's archived
\* flag, stage, stage_changed_at, comment_count, participant_count,
\* participant set, comment list or set of invite keys; but on an archived
\* discussion retract_comment by the author of a live comment still succeeds,
\* sets the comment's retraction flag and changes the verification hash, and
\* respond_to_invite by a Pending invitee still succeeds, changes the
\* invite's status and, when accepting, appends the invitee to the
\* contributors list.
C35_ArchivalFreezesPart ==
    /\ [](\A call \in EveryCall, d \in Discussions :
            state.discussions[d].is_archived => Frozen(call.r.st, d) = Frozen(state, d))
    /\ [](\A d \in Discussions :
            state.discussions[d].is_archived =>
                /\ \A c \in DOMAIN state.comments :
                    (state.comments[c].discussion_id = d /\ ~state.comments[c].is_retracted)
                    => LET r == retract_comment(state, state.comments[c].author, c, clock)
                       IN  /\ r.res.ok
                           /\ r.st.comments[c].is_retracted
                           /\ get_discussion_hash(r.st, d) # get_discussion_hash(state, d)
                /\ \A k \in InviteKeys(state, d), accept \in BOOLEAN :
                    state.invites[k].status = "Pending"
                    => LET r == respond_to_invite(state, k[2], d, accept, clock)
                       IN  /\ r.res.ok
                           /\ r.st.invites[k].status
                                  = IF accept THEN "Accepted" ELSE "Declined"
                           /\ r.st.discussions[d].contributors =
                                  IF accept
                                  THEN Append(state.discussions[d].contributors, k[2])
                                  ELSE state.discussions[d].contributors)
    /\ [][\A d \in Discussions :
            state.discussions[d].is_archived => Frozen(state', d) = Frozen(state, d)]_vars

\* An archived discussion with a live comment and a Pending invite: the
\* comment can be retracted and the invite accepted now, and a new comment
\* or invite is refused.
C35_Witness ==
    \E d \in Discussions :
        /\ state.discussions[d].is_archived
        /\ \E c \in DOMAIN state.comments :
                /\ state.comments[c].discussion_id = d
                /\ retract_comment(state, state.comments[c].author, c, clock).res.ok
        /\ \E k \in InviteKeys(state, d) :
                /\ respond_to_invite(state, k[2], d, TRUE, clock).res.ok
                /\ respond_to_invite(state, k[2], d, TRUE, clock).st
                       .discussions[d].contributors = << k[2] >>
        /\ ~add_comment(state, state.discussions[d].proposer,
                [ discussion_id |-> d, content |-> FrameContent,
                  author_type |-> Human ], clock).res.ok
        /\ ~invite_contributor(state, state.discussions[d].proposer, d, "p3", clock).res.ok

\* C36: the verification hash of a discussion d changes only by a successful
\* add_comment on d or a successful retract_comment of one of d's comments.
\* Every other call (advance_stage, archive_discussion, invite_contributor,
\* respond_to_invite, create_discussion, a call that fails, a call addressed
\* to another discussion), by any caller with any argument, leaves
\* get_discussion_hash(d) the same, and so does every step; stage,
\* contributors, archived flag, author kind and retraction time are not
\* part of the digest.
C36_HashFrame ==
    /\ [](\A call \in EveryCall, d \in Discussions :
            get_discussion_hash(call.r.st, d) # get_discussion_hash(state, d)
                => /\ call.r.res.ok
                   /\ call.d = d
                   /\ call.op \in { "add_comment", "retract_comment" })
    /\ [](\A d \in Discussions :
            LET discussion == state.discussions[d]
                comments == get_all_discussion_comments(state, d)
            IN  \A stage \in { "Brainstorm", "Refining", "Ready" }, archived \in BOOLEAN,
                   contributors \in { << >>, << "p2" >> }, author_type \in AuthorTypes,
                   retracted_at \in { None, Some(clock) } :
                    generate_discussion_hash(
                        [ discussion EXCEPT !.stage = stage, !.is_archived = archived,
                                            !.contributors = contributors ],
                        [ i \in 1..Len(comments) |->
                            [ comments[i] EXCEPT !.author_type = author_type,
                                                 !.retracted_at = retracted_at ] ])
                        = get_discussion_hash(state, d)[1])
    /\ [][\A d \in Discussions :
            get_discussion_hash(state', d) # get_discussion_hash(state, d)
                => \/ Len(state'.discussion_comments[d]) > Len(state.discussion_comments[d])
                   \/ \E c \in DOMAIN state.comments :
                        /\ state.comments[c].discussion_id = d
                        /\ ~state.comments[c].is_retracted
                        /\ state'.comments[c].is_retracted]_vars

\* A discussion without comments that someone was invited to and that was
\* advanced to Refining and archived: its hash is that of the discussion as
\* it was created.
C36_Witness ==
    \E d \in Discussions :
        /\ state.discussions[d].stage = "Refining"
        /\ state.discussions[d].is_archived
        /\ InviteKeys(state, d) # {}
        /\ state.discussion_comments[d] = << >>
        /\ get_discussion_hash(state, d) =
              Some(generate_discussion_hash(
                       [ id |-> d, title |-> FrameArgs.title,
                         description |-> FrameArgs.description,
                         category |-> FrameArgs.category,
                         proposer |-> state.discussions[d].proposer ], << >>))

\* Everything the store holds about one discussion, with what its probes return
View(st, d) ==
    [ discussion |-> st.discussions[d],
      comment_list |-> st.discussion_comments[d],
      comments |-> { st.comments[c] : c \in { c \in DOMAIN st.comments :
                                                st.comments[c].discussion_id = d } },
      participants |-> st.discussion_participants[d],
      invites |-> { st.invites[k] : k \in InviteKeys(st, d) },
      gate_status |-> get_quality_gate_status(st, d, clock),
      hash |-> get_discussion_hash(st, d) ]

\* C37: discussions are isolated from each other.  A call addressed to a
\* discussion d, or to a comment or an invite of d, by any caller with any
\* argument, leaves of every other discussion the record, the comment list,
\* the comments, the participant set, the invites, the gate status and the
\* hash as they were; a step changes this of at most one discussion.  What a
\* call may change besides is the two id counters and the per-user index.
C37_Isolation ==
    /\ [](\A call \in EveryCall, other \in Discussions :
            other # call.d => View(call.r.st, other) = View(state, other))
    /\ [][\A d, other \in Discussions :
            \/ d = other
            \/ View(state', d) = View(state, d)
            \/ View(state', other) = View(state, other)]_vars

\* Two discussions of two proposers; the first has a comment and is in
\* Refining, the second is as it was created.
C37_Witness ==
    /\ Discussions = { 1, 2 }
    /\ state.discussions[1].proposer # state.discussions[2].proposer
    /\ state.discussions[1].comment_count = 1
    /\ state.discussions[1].stage = "Refining"
    /\ state.discussions[2] =
          [ state.discussions[2] EXCEPT
              !.stage = "Brainstorm", !.comment_count = 0, !.participant_count = 1,
              !.contributors = << >>, !.is_archived = FALSE ]
    /\ state.discussion_comments[2] = << >>
    /\ InviteKeys(state, 2) = {}

\* ------------------------------------------------------------------------
\* The structure of the ledger
\* ------------------------------------------------------------------------
\* How often id c stands in the lists of all discussions.
Occurrences(st, c) ==
    LET RECURSIVE Sum(_)
        Sum(D) ==
            IF D = {} THEN 0
            ELSE LET d == CHOOSE x \in D : TRUE
                     list == st.discussion_comments[d]
                 IN  Cardinality({ i \in 1..Len(list) : list[i] = c }) + Sum(D \ {d})
    IN  Sum(DOMAIN st.discussion_comments)

\* C38: in every reachable state, each discussion's comment_count is the
\* length of its comment-id list; every id of the list is a key of the
\* comments table, of a comment whose discussion_id is that discussion; every
\* comment of the table stands in exactly one list, exactly once; and each of
\* the two id counters is greater than every id in use.
C38_LedgerStructure ==
    /\ \A d \in DOMAIN state.discussions :
            LET list == or_default(state.discussion_comments, d, << >>)
            IN  /\ state.discussions[d].comment_count = Len(list)
                /\ \A i \in 1..Len(list) :
                        /\ contains_key(state.comments, list[i])
                        /\ state.comments[list[i]].discussion_id = d
    /\ \A c \in DOMAIN state.comments :
            /\ Occurrences(state, c) = 1
            /\ contains_key(state.discussions, state.comments[c].discussion_id)
            /\ state.comments[c].id = c
            /\ c < state.next_comment_id
    /\ \A d \in DOMAIN state.discussions :
            /\ state.discussions[d].id = d
            /\ d < state.next_discussion_id
    /\ \A d \in DOMAIN state.discussion_comments :
            contains_key(state.discussions, d)

\* C38 witness: two discussions, each with a comment of its own in its list.
C38_Witness ==
    /\ Cardinality(DOMAIN state.discussions) = 2
    /\ Cardinality(DOMAIN state.comments) = 2
    /\ \A d \in DOMAIN state.discussions :
            /\ state.discussions[d].comment_count = 1
            /\ Len(state.discussion_comments[d]) = 1

\* ------------------------------------------------------------------------
\* Roles
\* ------------------------------------------------------------------------
NoDuplicates(v) == \A i, j \in 1..Len(v) : v[i] = v[j] => i = j

\* C39: in every reachable state a discussion's proposer is not in its
\* contributors list and has no invite record for it, the contributors list
\* has no duplicates, and no invite has one principal as inviter and invitee.
C39_RolesDisjoint ==
    /\ \A d \in DOMAIN state.discussions :
            LET discussion == state.discussions[d]
            IN  /\ ~contains(discussion.contributors, discussion.proposer)
                /\ ~contains_key(state.invites, << d, discussion.proposer >>)
                /\ NoDuplicates(discussion.contributors)
    /\ \A k \in DOMAIN state.invites :
            /\ state.invites[k].invited_by # state.invites[k].invitee
            /\ state.invites[k].invitee = k[2]
            /\ state.invites[k].discussion_id = k[1]

\* C39 witness: a discussion has a contributor, and that contributor has
\* invited a third principal.
C39_Witness ==
    \E d \in DOMAIN state.discussions, k \in DOMAIN state.invites :
        /\ k[1] = d
        /\ Len(state.discussions[d].contributors) = 1
        /\ state.invites[k].invited_by = state.discussions[d].contributors[1]
        /\ state.invites[k].invitee # state.discussions[d].proposer

\* ------------------------------------------------------------------------
\* Invites that were not accepted
\* ------------------------------------------------------------------------
\* The principals whose invite to d is Pending or Declined
NotAccepted(d) ==
    { k[2] : k \in { k \in InviteKeys(state, d) :
                        state.invites[k].status \in { "Pending", "Declined" } } }

\* advance_stage and invite_contributor on d by a principal whose invite to d
\* is Pending or Declined fail for want of the right, whatever the stage, the
\* time and the archived flag, and change nothing.
NoRightsFromInvite(d) ==
    \A p \in NotAccepted(d) :
        /\ p # state.discussions[d].proposer
        /\ ~Authorized(d, p)
        /\ \A now \in NowValues :
                advance_stage(state, p, d, now) =
                    Ret(state, Err("Only the proposer or a contributor can advance the stage"))
        /\ \A invitee \in Principals :
                invite_contributor(state, p, d, invitee, clock) =
                    Ret(state, Err("Only the proposer or a contributor can invite others"))

\* The original statement: in Refining and Ready every add_comment of such a
\* principal fails as Unauthorized.
C40_AlwaysUnauthorized ==
    \A d \in Discussions :
        /\ NoRightsFromInvite(d)
        /\ state.discussions[d].stage \in { "Refining", "Ready" } =>
                \A p \in NotAccepted(d), content \in Contents, author_type \in AuthorTypes :
                    LET r == add_comment(state, p, [ discussion_id |-> d, content |-> content,
                                                     author_type |-> author_type ], clock)
                    IN  /\ r.st = state
                        /\ ErrorKind(r.res) = "Unauthorized"

\* C40: a principal whose invite to d is Pending or Declined has no more
\* rights on d than a principal without an invite: its advance_stage and
\* invite_contributor calls fail as Unauthorized in every stage, and in
\* Refining and Ready its add_comment fails: as ValidationError if the content
\* is invalid, else as InvalidState if d is archived, else as Unauthorized.
C40_NoRightsUntilAccepted ==
    \A d \in Discussions :
        /\ NoRightsFromInvite(d)
        /\ state.discussions[d].stage \in { "Refining", "Ready" } =>
                \A p \in NotAccepted(d), content \in Contents, author_type \in AuthorTypes :
                    LET args == [ discussion_id |-> d, content |-> content,
                                  author_type |-> author_type ]
                        r == add_comment(state, p, args, clock)
                    IN  /\ r.st = state
                        /\ ErrorKind(r.res) =
                                IF ~validate_comment(args).ok THEN "ValidationError"
                                ELSE IF state.discussions[d].is_archived THEN "InvalidState"
                                ELSE "Unauthorized"

\* C40 witness: a discussion in Ready that is not archived, with a declined
\* invite of a principal who commented on it in Brainstorm.
C40_Witness ==
    \E d \in Discussions : \E p \in NotAccepted(d) :
        /\ state.discussions[d].stage = "Ready"
        /\ ~state.discussions[d].is_archived
        /\ state.invites[<< d, p >>].status = "Declined"
        /\ p \in state.discussion_participants[d]

====
